---------------------------- MODULE Spec2Model ----------------------------
(***************************************************************************)
(* Detection and structured-field extraction of the drawing OCR backend    *)
(* (src/backend/ocr_service.py).                                           *)
(*                                                                         *)
(* A Python str is modelled as a sequence of characters, each character a  *)
(* one-element TLA+ string.  Characters outside ASCII are written by their *)
(* code point ("U+00D8" is the diameter sign).  The four tag markers of    *)
(* the grounding grammar ("<|ref|>", "<|/ref|>", "<|det|>", "<|/det|>")    *)
(* are single symbols of a text: no vocabulary word of the classifier or   *)
(* of the extractors contains "<", "|" or ">", so no substring test can    *)
(* tell a marker symbol from its seven or eight characters.                *)
(***************************************************************************)
EXTENDS Integers, Sequences, FiniteSets, TLC

VARIABLES
    pc,            \* position of the run: which call is next
    text,          \* the raw model output handed to the parsers
    img_width,     \* image size in pixels
    img_height,
    elements,      \* List[DetectedElement]
    dimensions,    \* List[Dimension]
    part_numbers,  \* List[PartNumber]
    tables,        \* List[ExtractedTable]
    metadata,      \* Dict[str, Optional[str]] of extract_drawing_metadata
    cleaned_text,  \* the model output after _strip_reasoning
    grounding,     \* the grounding flag of the call
    image_sessions,\* main.image_sessions: session id -> uploaded_at
    session_files, \* the session ids whose image file is on disk
    issued,        \* the values uuid.uuid4() has returned
    now,           \* datetime.now(), in hours
    answered,      \* the requests in arrival order, each with its answer
    time,          \* time.time(), in milliseconds
    generations,   \* the calls of engine.generate, in call order
    files,         \* the files of one /api/ocr/batch request
    file_paths,    \* the image files the request saved
    results,       \* the results list of process_batch
    printed,       \* the paths process_batch printed an error for
    batch_response \* the answer of /api/ocr/batch

\* the state of one call of a parsing function
callVars == <<text, img_width, img_height, elements, dimensions,
              part_numbers, tables, metadata, cleaned_text, grounding>>

\* the state of the sessions of main.py
sessionVars == <<image_sessions, session_files, issued, now, answered>>

\* the state of the engines' requests
engineVars == <<time, generations>>

\* the state of one batch request
batchVars == <<files, file_paths, results, printed, batch_response>>

vars == <<pc, callVars, sessionVars, engineVars, batchVars>>

\* the module of main.py as loaded and the services as constructed: no
\* session, no request
NoRequests ==
    /\ image_sessions = [sid \in {} |-> 0]
    /\ session_files = {}
    /\ issued = {}
    /\ now = 0
    /\ answered = <<>>
    /\ time = 0
    /\ generations = <<>>
    /\ files = <<>>
    /\ file_paths = <<>>
    /\ results = <<>>
    /\ printed = <<>>
    /\ batch_response = [status |-> "None"]

(***************************************************************************)
(* Characters                                                              *)
(***************************************************************************)
DiameterSign == "U+00D8"      \* the diameter sign, a letter of category Lu
DiameterLower == "U+00F8"     \* its lower case
EmptySetSign == "U+2205"      \* the empty-set sign, a symbol
PlusMinus == "U+00B1"
Degree == "U+00B0"
DoublePrime == "U+2033"
Prime == "U+2032"
NL == "\n"

REF == "<|ref|>"
ENDREF == "<|/ref|>"
DET == "<|det|>"
ENDDET == "<|/det|>"

Digits == {"0", "1", "2", "3", "4", "5", "6", "7", "8", "9"}

UpperCase == <<"A", "B", "C", "D", "E", "F", "G", "H", "I", "J", "K", "L", "M",
               "N", "O", "P", "Q", "R", "S", "T", "U", "V", "W", "X", "Y", "Z",
               DiameterSign>>

LowerCase == <<"a", "b", "c", "d", "e", "f", "g", "h", "i", "j", "k", "l", "m",
               "n", "o", "p", "q", "r", "s", "t", "u", "v", "w", "x", "y", "z",
               DiameterLower>>

Range(s) == {s[i] : i \in 1..Len(s)}

\* re's \s and the characters str.strip() removes
Whitespace == {" ", "\t", NL}

\* re's \w on a str pattern: letters, digits and the underscore
WordChars == Range(UpperCase) \cup Range(LowerCase) \cup Digits \cup {"_"}

\* the class [\w-]
TokenChars == WordChars \cup {"-"}

(***************************************************************************)
(* str operations                                                          *)
(***************************************************************************)
Min(S) == CHOOSE x \in S : \A y \in S : x <= y

Max(S) == CHOOSE x \in S : \A y \in S : x >= y

\* one character of str.lower()
LowerChar(c) ==
    IF \E i \in 1..Len(UpperCase) : UpperCase[i] = c
    THEN LowerCase[CHOOSE i \in 1..Len(UpperCase) : UpperCase[i] = c]
    ELSE c

\* str.lower()
Lower(s) == [i \in 1..Len(s) |-> LowerChar(s[i])]

\* w occurs in s at position i
OccursAt(s, w, i) ==
    /\ i >= 1
    /\ i + Len(w) - 1 <= Len(s)
    /\ \A k \in 1..Len(w) : s[i + k - 1] = w[k]

\* Python's  w in s
Contains(s, w) == \E i \in 1..(Len(s) + 1) : OccursAt(s, w, i)

\* the end of the longest run of characters of class C that starts at i:
\* where a greedy C* started at i stops
SkipWhile(s, i, C) ==
    Min({j \in i..(Len(s) + 1) : j = Len(s) + 1 \/ s[j] \notin C})

\* str.strip()
Strip(s) ==
    LET a == SkipWhile(s, 1, Whitespace)
        keep == {j \in 1..Len(s) : s[j] \notin Whitespace}
    IN  IF keep = {} THEN <<>> ELSE SubSeq(s, a, Max(keep))

RECURSIVE Concat(_)
\* "".join(parts)
Concat(parts) ==
    IF parts = <<>> THEN <<>> ELSE Head(parts) \o Concat(Tail(parts))

RECURSIVE JoinWith(_, _)
\* sep.join(parts)
JoinWith(sep, parts) ==
    IF parts = <<>> THEN <<>>
    ELSE IF Len(parts) = 1 THEN parts[1]
    ELSE parts[1] \o sep \o JoinWith(sep, Tail(parts))

RECURSIVE ToInt(_)
\* int(s) of a digit string
ToInt(s) ==
    IF s = <<>> THEN 0
    ELSE LET d == s[Len(s)]
             v == CHOOSE n \in 0..9 :
                      <<"0", "1", "2", "3", "4", "5", "6", "7", "8", "9">>[n + 1] = d
         IN  10 * ToInt(SubSeq(s, 1, Len(s) - 1)) + v

\* Python's None where a str is optional: no str, since "None" is no character
None == <<"None">>

\* a failed match of a pattern whose match is a record of groups
NoMatch == [ok |-> FALSE]

(***************************************************************************)
(* _classify_element: the ordered rules of the tag-path classifier         *)
(***************************************************************************)
UnitTokens == {<<"m", "m">>, <<"c", "m">>, <<"m">>, <<"i", "n">>, <<"f", "t">>,
               <<"\"">>, <<"'">>}

DimensionSymbols == {<<DiameterSign>>, <<EmptySetSign>>, <<"R">>,
                     <<PlusMinus>>, <<Degree>>}

\* the alternatives (p/n|part|item|pos|no\.?) without the optional dot
PartKeywords == {<<"p", "/", "n">>, <<"p", "a", "r", "t">>, <<"i", "t", "e", "m">>,
                 <<"p", "o", "s">>, <<"n", "o">>}

TableWords == {<<"i", "t", "e", "m">>, <<"q", "t", "y">>,
               <<"d", "e", "s", "c", "r", "i", "p", "t", "i", "o", "n">>,
               <<"p", "a", "r", "t", " ", "n", "u", "m", "b", "e", "r">>}

TitleWords == {<<"t", "i", "t", "l", "e">>, <<"d", "r", "a", "w", "i", "n", "g">>,
               <<"s", "h", "e", "e", "t">>, <<"r", "e", "v", "i", "s", "i", "o", "n">>}

\* (p/n|part|item|pos|no\.?)\s*[:#]?\s*([\w-]+) matched at position i of s, the
\* keyword compared with low, the lower-cased s: the positions <<from, to>> of group 2,
\* <<0, 0>> when the pattern does not match at i.  At most one keyword occurs at
\* a position, and each greedy step is forced: what \s*, [:#]? or \.? could give
\* back is never a character of [\w-].
PartPatternAt(s, low, i) ==
    LET kws == {k \in PartKeywords : OccursAt(low, k, i)}
    IN  IF kws = {} THEN <<0, 0>>
        ELSE LET k == CHOOSE k \in kws : TRUE
                 j0 == i + Len(k)
                 j == IF k = <<"n", "o">> /\ j0 <= Len(s) /\ s[j0] = "."
                      THEN j0 + 1 ELSE j0
                 a == SkipWhile(s, j, Whitespace)
                 b == IF a <= Len(s) /\ s[a] \in {":", "#"} THEN a + 1 ELSE a
                 c == SkipWhile(s, b, Whitespace)
                 d == SkipWhile(s, c, TokenChars)
             IN  IF d > c THEN <<c, d - 1>> ELSE <<0, 0>>

\* re.search of the part-number pattern: group 2 of the leftmost match, or None
PartPatternSearch(s) ==
    LET low == Lower(s)
        hits == {i \in 1..Len(s) : PartPatternAt(s, low, i) # <<0, 0>>}
    IN  IF hits = {} THEN None
        ELSE LET g == PartPatternAt(s, low, Min(hits)) IN SubSeq(s, g[1], g[2])

IsDimensionLabel(label) ==
    \/ \E unit \in UnitTokens : Contains(label, unit)
    \/ \E sym \in DimensionSymbols : Contains(label, sym)

IsPartNumberLabel(label) == PartPatternSearch(Lower(label)) # None

IsTableLabel(label) == \E word \in TableWords : Contains(Lower(label), word)

IsTitleLabel(label) == \E word \in TitleWords : Contains(Lower(label), word)

\* classify_element with the table rule tried before the dimension rule
classify_element_table_first(label) ==
    IF IsTableLabel(label) THEN "table"
    ELSE IF IsDimensionLabel(label) THEN "dimension"
    ELSE IF IsPartNumberLabel(label) THEN "part_number"
    ELSE IF IsTitleLabel(label) THEN "title"
    ELSE "text"

\* classify_element with the view rule of the JSON-path classifier in front
classify_element_with_view(label) ==
    IF Contains(Lower(label), <<"v", "i", "e", "w">>) THEN "view"
    ELSE IF IsDimensionLabel(label) THEN "dimension"
    ELSE IF IsPartNumberLabel(label) THEN "part_number"
    ELSE IF IsTableLabel(label) THEN "table"
    ELSE IF IsTitleLabel(label) THEN "title"
    ELSE "text"

classify_element(label) ==
    IF IsDimensionLabel(label) THEN "dimension"
    ELSE IF IsPartNumberLabel(label) THEN "part_number"
    ELSE IF IsTableLabel(label) THEN "table"
    ELSE IF IsTitleLabel(label) THEN "title"
    ELSE "text"

(***************************************************************************)
(* Pixel coordinates.  x * img_width / 1000 is a Python true division: the *)
(* float nearest to the exact quotient.  The model keeps the exact         *)
(* quotient, as a fraction in lowest terms.                                *)
(***************************************************************************)
RECURSIVE GCD(_, _)
GCD(a, b) == IF b = 0 THEN a ELSE GCD(b, a % b)

Rat(n, d) ==
    LET g == GCD(n, d) IN [num |-> n \div g, den |-> d \div g]

\* the divisor of parse_detections
CoordScale == 1000

BoundingBox(x1, y1, x2, y2) == [x1 |-> x1, y1 |-> y1, x2 |-> x2, y2 |-> y2]

DetectedElement(label, element_type, bbox) ==
    [label |-> label, element_type |-> element_type, bbox |-> bbox]

(***************************************************************************)
(* parse_detections: re.finditer of                                        *)
(*   <|ref|>(.*?)<|/ref|><|det|>[[(\d+),\s*(\d+),\s*(\d+),\s*(\d+)]]<|/det|>*)
(***************************************************************************)
\* the position of the first newline at or after i, Len(s) + 1 when none:
\* how far a greedy .+ or .* started at i can reach
LineEnd(s, i) == Min({j \in i..(Len(s) + 1) : j = Len(s) + 1 \/ s[j] = NL})

RECURSIVE CoordsAt(_, _, _)
\* the number s[a..b-1] and, when it is not the last one, the comma, the
\* whitespace and the k - 1 numbers after it
CoordsFrom(s, a, b, k) ==
    IF b = a THEN <<>>
    ELSE IF k = 1 THEN <<<<a, b - 1>>>>
    ELSE IF b <= Len(s) /\ s[b] = ","
    THEN LET rest == CoordsAt(s, SkipWhile(s, b + 1, Whitespace), k - 1)
         IN  IF rest = <<>> THEN <<>> ELSE <<<<a, b - 1>>>> \o rest
    ELSE <<>>

\* (\d+),\s*(\d+),\s* ... (\d+) with k numbers, matched at position a: the
\* <<from, to>> positions of the numbers, <<>> when it does not match.  Each
\* \d+ and \s* is followed by a character outside its class, so the greedy
\* match is the only one.
CoordsAt(s, a, k) == CoordsFrom(s, a, SkipWhile(s, a, Digits), k)

\* the end of the pattern, ]]<|/det|>, after the coordinates cs
DetTailWith(s, cs) ==
    IF cs # <<>> /\ OccursAt(s, <<"]", "]", ENDDET>>, cs[4][2] + 1)
    THEN [ok |-> TRUE,
          coords |-> [k \in 1..4 |-> SubSeq(s, cs[k][1], cs[k][2])],
          end |-> cs[4][2] + 4]
    ELSE NoMatch

\* the pattern from <|/ref|> on, matched at position j: the four coordinate
\* strings and the position after the match, or NoMatch
DetTailAt(s, j) ==
    IF OccursAt(s, <<ENDREF, DET, "[", "[">>, j)
    THEN DetTailWith(s, CoordsAt(s, j + 4, 4))
    ELSE NoMatch

\* the match whose label span ends before position c[1] and whose tail is c[2]
RefMatchOf(s, i, c) ==
    [ok |-> TRUE, group1 |-> SubSeq(s, i + 1, c[1] - 1),
     coords |-> c[2].coords, start |-> i, end |-> c[2].end]

\* the non-greedy .*? takes the shortest span after which the tail matches
RefMatchAmong(s, i, tails) ==
    IF tails = {} THEN NoMatch
    ELSE RefMatchOf(s, i, CHOOSE c \in tails : \A d \in tails : c[1] <= d[1])

\* the match that starts at position i: <|ref|> at i, then a span without a
\* newline, then the rest of the pattern
RefMatchAt(s, i) ==
    IF s[i] # REF THEN NoMatch
    ELSE RefMatchAmong(s, i,
             {c \in {<<j, DetTailAt(s, j)>> : j \in (i + 1)..LineEnd(s, i + 1)} :
                 c[2].ok})

RECURSIVE FindTags(_, _)
\* the leftmost of the matches ms, then the matches after its end
TagsFrom(s, ms) ==
    IF ms = {} THEN <<>>
    ELSE LET m == CHOOSE m \in ms : \A n \in ms : m.start <= n.start
         IN  <<m>> \o FindTags(s, m.end)

\* the matches of re.finditer from position p on: leftmost first, the next
\* search starting where the match ended
FindTags(s, p) == TagsFrom(s, {m \in {RefMatchAt(s, i) : i \in p..Len(s)} : m.ok})

\* the body of the loop of parse_detections, for the stripped label and the
\* coordinate strings c of one match
element_of(label, c, width, height) ==
    DetectedElement(label,
                    classify_element(label),
                    BoundingBox(Rat(ToInt(c[1]) * width, CoordScale),
                                Rat(ToInt(c[2]) * height, CoordScale),
                                Rat(ToInt(c[3]) * width, CoordScale),
                                Rat(ToInt(c[4]) * height, CoordScale)))

elements_of(matches, width, height) ==
    [k \in 1..Len(matches) |->
        element_of(Strip(matches[k].group1), matches[k].coords, width, height)]

parse_detections(txt, width, height) == elements_of(FindTags(txt, 1), width, height)

\* the decimal exponent of the largest finite float, 1.797...e308: the true
\* division x1 * img_width / 1000 raises OverflowError above it
FloatMaxExponent == 308

\* the digits of the coordinate string c as int(c) keeps them
RECURSIVE SignificantDigits(_)
SignificantDigits(c) ==
    IF Len(c) > 1 /\ Head(c) = "0" THEN SignificantDigits(Tail(c)) ELSE c

\* the number of decimal digits of the positive integer n
RECURSIVE DigitCount(_)
DigitCount(n) == IF n < 10 THEN 1 ELSE 1 + DigitCount(n \div 10)

\* whether int(c) * extent / 1000 raises OverflowError, for extent >= 1: a
\* coordinate of d digits is at least 10^(d-1) and less than 10^d, so the
\* quotient is at least 10^(d-4) and less than 10^(d + digits of extent - 3);
\* between the two arms the outcome depends on the leading digits
CoordinateOverflows(c, extent) ==
    LET d == Len(SignificantDigits(c))
    IN  CASE d - 4 > FloatMaxExponent -> TRUE
          [] d + DigitCount(extent) - 3 <= FloatMaxExponent -> FALSE

\* whether the loop of parse_detections raises on one of the matches: the
\* method has no try block, so the error leaves it
conversion_raises(matches, width, height) ==
    \E k \in 1..Len(matches) :
        \/ CoordinateOverflows(matches[k].coords[1], width)
        \/ CoordinateOverflows(matches[k].coords[2], height)
        \/ CoordinateOverflows(matches[k].coords[3], width)
        \/ CoordinateOverflows(matches[k].coords[4], height)

(***************************************************************************)
(* extract_dimensions: re.search of                                        *)
(*   (D|E|R)?(\d+(?:\.\d+)?)\s*(mm|cm|m|in|ft|deg|dprime|prime)?           *)
(*       (\s*pm\s*\d+(?:\.\d+)?)?                                          *)
(* D the diameter sign, E the empty-set sign, deg the degree sign, pm the  *)
(* plus-minus sign.                                                        *)
(***************************************************************************)
DimensionPrefixes == {DiameterSign, EmptySetSign, "R"}

\* the unit alternatives, in the order the pattern tries them
DimensionUnits == <<<<"m", "m">>, <<"c", "m">>, <<"m">>, <<"i", "n">>,
                    <<"f", "t">>, <<Degree>>, <<DoublePrime>>, <<Prime>>>>

\* \d+(?:\.\d+)? started at a digit at position i: the position after it
NumberEnd(s, i) ==
    LET d == SkipWhile(s, i, Digits)
    IN  IF d + 1 <= Len(s) /\ s[d] = "." /\ s[d + 1] \in Digits
        THEN SkipWhile(s, d + 1, Digits)
        ELSE d

\* The leftmost match starts at the first digit, or at a prefix right before
\* it.  Everything after the number is optional, so each greedy choice
\* stands: the whitespace after the number is consumed before the unit is
\* tried, and the unit is tried before the tolerance.
DimensionPatternSearch(s) ==
    LET ds == {i \in 1..Len(s) : s[i] \in Digits}
    IN  IF ds = {} THEN NoMatch
        ELSE LET d0 == Min(ds)
                 v1 == NumberEnd(s, d0)
                 a == SkipWhile(s, v1, Whitespace)
                 us == {k \in 1..Len(DimensionUnits) : OccursAt(s, DimensionUnits[k], a)}
                 b == IF us = {} THEN a ELSE a + Len(DimensionUnits[Min(us)])
                 t0 == SkipWhile(s, b, Whitespace)
                 t1 == SkipWhile(s, t0 + 1, Whitespace)
                 tol == /\ t0 <= Len(s) /\ s[t0] = PlusMinus
                        /\ t1 <= Len(s) /\ s[t1] \in Digits
             IN  [ok |-> TRUE,
                  prefix |-> IF d0 > 1 /\ s[d0 - 1] \in DimensionPrefixes
                             THEN <<s[d0 - 1]>> ELSE None,
                  value |-> SubSeq(s, d0, v1 - 1),
                  unit |-> IF us = {} THEN None ELSE DimensionUnits[Min(us)],
                  tolerance |-> IF tol THEN SubSeq(s, b, NumberEnd(s, t1) - 1)
                                ELSE None]

\* dim_type with the degree sign looked for before the prefix
dimension_type_degree_first(prefix, label) ==
    IF Contains(label, <<Degree>>) THEN "angular"
    ELSE IF prefix = <<DiameterSign>> \/ prefix = <<EmptySetSign>> THEN "diameter"
    ELSE IF prefix = <<"R">> THEN "radius"
    ELSE "linear"

\* dim_type of extract_dimensions
dimension_type(prefix, label) ==
    IF prefix = <<DiameterSign>> \/ prefix = <<EmptySetSign>> THEN "diameter"
    ELSE IF prefix = <<"R">> THEN "radius"
    ELSE IF Contains(label, <<Degree>>) THEN "angular"
    ELSE "linear"

Dimension(value, unit, tolerance, dim_type, bbox) ==
    [value |-> value, unit |-> unit, tolerance |-> tolerance,
     dimension_type |-> dim_type, bbox |-> bbox]

\* the body of the loop without the test of element_type
dimensions_of_any_type(element) ==
    LET match == DimensionPatternSearch(element.label)
    IN  IF match.ok
        THEN <<Dimension(element.label,
                         match.unit,
                         IF match.tolerance # None THEN Strip(match.tolerance)
                         ELSE None,
                         dimension_type(match.prefix, element.label),
                         element.bbox)>>
        ELSE <<>>

\* the body of the loop of extract_dimensions: what one element appends
dimensions_of(element) ==
    LET match == DimensionPatternSearch(element.label)
    IN  IF element.element_type = "dimension" /\ match.ok
        THEN <<Dimension(element.label,
                         match.unit,
                         IF match.tolerance # None THEN Strip(match.tolerance)
                         ELSE None,
                         dimension_type(match.prefix, element.label),
                         element.bbox)>>
        ELSE <<>>

RECURSIVE extract_dimensions(_, _)
extract_dimensions(txt, elems) ==
    IF elems = <<>> THEN <<>>
    ELSE dimensions_of(Head(elems)) \o extract_dimensions(txt, Tail(elems))

(***************************************************************************)
(* extract_part_numbers                                                    *)
(***************************************************************************)
PartNumber(number, bbox) ==
    [number |-> number, description |-> None, bbox |-> bbox]

\* number without the fall-back to the label
part_number_of_no_fallback(label) ==
    LET token == PartPatternSearch(label)
    IN  IF token # None THEN token ELSE <<>>

\* number of extract_part_numbers: group 2 of the structured match (the
\* keyword compared ignoring case), the label when there is no match
part_number_of(label) ==
    LET token == PartPatternSearch(label)
    IN  IF token # None THEN token ELSE label

\* the body of the loop of extract_part_numbers
part_numbers_of(element) ==
    IF element.element_type = "part_number"
    THEN <<PartNumber(part_number_of(element.label), element.bbox)>>
    ELSE <<>>

RECURSIVE extract_part_numbers(_, _)
extract_part_numbers(txt, elems) ==
    IF elems = <<>> THEN <<>>
    ELSE part_numbers_of(Head(elems)) \o extract_part_numbers(txt, Tail(elems))

(***************************************************************************)
(* extract_tables: re.finditer of                                          *)
(*   \|(.+)\|\n\|[-:\s|]+\|\n((?:\|.+\|\n?)+)                              *)
(***************************************************************************)
\* the class [-:\s|] of the separator row; \s holds the newline
SeparatorChars == {"-", ":", "|"} \cup Whitespace

BomWords == {<<"i", "t", "e", "m">>, <<"q", "t", "y">>, <<"p", "a", "r", "t">>,
             <<"d", "e", "s", "c", "r", "i", "p", "t", "i", "o", "n">>}

RECURSIVE BodyEnd(_, _)
\* (?:\|.+\|\n?)+ from position x on: the position after the last iteration,
\* x when there is none.  An iteration takes a pipe, then .+ up to the last
\* pipe of the line, then the newline if it follows; the group is the end of
\* the pattern, so the greedy iterations stand.
BodyEnd(s, x) ==
    IF x > Len(s) \/ s[x] # "|" THEN x
    ELSE LET e == LineEnd(s, x)
             closing == {r \in (x + 2)..(e - 1) : s[r] = "|"}
         IN  IF closing = {} THEN x
             ELSE LET r == Max(closing)
                  IN  BodyEnd(s, IF r + 1 <= Len(s) /\ s[r + 1] = NL
                                 THEN r + 2 ELSE r + 1)

\* the separator row ended at any pipe that ends a line, body row or not
SeparatorEndsAt_without_body(s, p) ==
    /\ s[p] = "|"
    /\ p + 1 <= Len(s)
    /\ s[p + 1] = NL

\* \|\n((?:\|.+\|\n?)+) at position p: the pipe that ends the separator row,
\* the newline, and at least one body row
SeparatorEndsAt(s, p) ==
    /\ s[p] = "|"
    /\ p + 1 <= Len(s)
    /\ s[p + 1] = NL
    /\ BodyEnd(s, p + 2) > p + 2

\* the whole pattern matched at position i.  The header is a pipe, .+ and
\* the pipe that ends the line.  The separator is a pipe, a run of
\* SeparatorChars and a pipe that ends a line: the greedy run is given back
\* to the last such pipe after which a body row follows.
TableMatchAt(s, i) ==
    IF s[i] # "|" THEN NoMatch
    ELSE LET e == LineEnd(s, i)
             q == e + 1
             run == SkipWhile(s, q + 1, SeparatorChars)
             closing == {p \in (q + 2)..(run - 1) : SeparatorEndsAt(s, p)}
             header == /\ e <= Len(s)
                       /\ e - 1 >= i + 2
                       /\ s[e - 1] = "|"
                       /\ q <= Len(s)
                       /\ s[q] = "|"
         IN  IF header /\ closing # {}
             THEN LET p == Max(closing)
                  IN  [ok |-> TRUE,
                       group1 |-> SubSeq(s, i + 1, e - 2),
                       group2 |-> SubSeq(s, p + 2, BodyEnd(s, p + 2) - 1),
                       start |-> i, end |-> BodyEnd(s, p + 2)]
             ELSE NoMatch

\* re.search in the place of re.finditer: the first match alone
FindTables_first_only(s, p) ==
    LET starts == {i \in p..Len(s) : TableMatchAt(s, i).ok}
    IN  IF starts = {} THEN <<>> ELSE <<TableMatchAt(s, Min(starts))>>

RECURSIVE FindTables(_, _)
\* the matches of re.finditer from position p on
FindTables(s, p) ==
    LET starts == {i \in p..Len(s) : TableMatchAt(s, i).ok}
    IN  IF starts = {} THEN <<>>
        ELSE LET m == TableMatchAt(s, Min(starts))
             IN  <<m>> \o FindTables(s, m.end)

RECURSIVE Split(_, _)
\* s.split(c) for a one-character separator
Split(s, c) ==
    LET at == {i \in 1..Len(s) : s[i] = c}
    IN  IF at = {} THEN <<s>>
        ELSE <<SubSeq(s, 1, Min(at) - 1)>> \o Split(SubSeq(s, Min(at) + 1, Len(s)), c)

NonEmpty(x) == x # <<>>

\* [c.strip() for c in line.split('|') if c.strip()]
Cells(line) ==
    LET parts == Split(line, "|")
    IN  SelectSeq([k \in 1..Len(parts) |-> Strip(parts[k])], NonEmpty)

TableRow(cells, row_number) == [cells |-> cells, row_number |-> row_number]

RECURSIVE RowsFrom(_, _)
\* the loop over enumerate(lines), from the line of index i - 1 on
RowsFrom(lines, i) ==
    IF i > Len(lines) THEN <<>>
    ELSE (IF Cells(lines[i]) # <<>>
          THEN <<TableRow(Cells(lines[i]), i - 1)>> ELSE <<>>)
         \o RowsFrom(lines, i + 1)

table_type(headers) ==
    LET header_text == Lower(JoinWith(<<" ">>, headers))
    IN  IF \E word \in BomWords : Contains(header_text, word)
        THEN "bom" ELSE "general"

ExtractedTable(headers, rows, type) ==
    [headers |-> headers, rows |-> rows, table_type |-> type]

\* the body of the loop of extract_tables: the table of one match
table_of(match) ==
    LET headers == Cells(match.group1)
        rows == RowsFrom(Split(Strip(match.group2), NL), 1)
    IN  ExtractedTable(headers, rows, table_type(headers))

extract_tables(txt) ==
    LET matches == FindTables(txt, 1)
    IN  [k \in 1..Len(matches) |-> table_of(matches[k])]

(***************************************************************************)
(* extract_drawing_metadata: re.search, ignoring case, of                  *)
(*   (?:title|drawing)[:\s]+(.+?)(?:\n|$)                                  *)
(*   (?:drawing|dwg|no\.?)[:\s#]+([\w-]+)                                  *)
(*   (?:rev\.?|revision)[:\s]+([A-Z0-9]+)                                  *)
(*   scale[:\s]+(1:\d+|\d+:\d+)                                            *)
(***************************************************************************)
\* the dict before the four lookups
NoMetadata == [title |-> None, number |-> None, revision |-> None, scale |-> None]

TitleKeywords == {<<"t", "i", "t", "l", "e">>, <<"d", "r", "a", "w", "i", "n", "g">>}

NumberKeywords == {<<"d", "r", "a", "w", "i", "n", "g">>, <<"d", "w", "g">>, <<"n", "o">>}

RevisionKeywords == {<<"r", "e", "v">>, <<"r", "e", "v", "i", "s", "i", "o", "n">>}

ScaleKeyword == <<"s", "c", "a", "l", "e">>

\* [A-Z0-9] ignoring case
RevisionChars == (Range(UpperCase) \cup Range(LowerCase) \cup Digits) \ {DiameterSign, DiameterLower}

\* the position after a keyword of kws at position i of low, and after the
\* dot that may follow one of dotted; 0 when no keyword stands at i
AfterKeyword(low, kws, dotted, i) ==
    LET at == {k \in kws : OccursAt(low, k, i)}
    IN  IF at = {} THEN 0
        ELSE LET k == CHOOSE k \in at : TRUE
                 j == i + Len(k)
             IN  IF k \in dotted /\ j <= Len(low) /\ low[j] = "." THEN j + 1 ELSE j

\* keyword, a run of one or more characters of run, a token of one or more
\* characters of token, at position i: the positions <<from, to>> of the
\* token, <<0, 0>> when there is no match.  No character of run is one of
\* token, so the greedy run stands.
KeywordTokenAt(s, low, kws, dotted, run, token, i) ==
    LET j == AfterKeyword(low, kws, dotted, i)
        r == SkipWhile(s, j, run)
        e == SkipWhile(s, r, token)
    IN  IF j > 0 /\ r > j /\ e > r THEN <<r, e - 1>> ELSE <<0, 0>>

\* the title pattern at position i: the positions of group 1.  The run
\* [:\s]+ is greedy and ends before the first other character; when it
\* reaches the end of the text it is given back to its last character that
\* is not a newline, which becomes the group.  The group ends before the
\* next newline.
TitlePatternAt(s, low, i) ==
    LET j == AfterKeyword(low, TitleKeywords, {}, i)
        r == SkipWhile(s, j, {":"} \cup Whitespace)
        back == {q \in (j + 1)..(r - 1) : s[q] # NL}
        q == IF r <= Len(s) THEN r ELSE IF back # {} THEN Max(back) ELSE 0
    IN  IF j > 0 /\ r > j /\ q > 0 THEN <<q, LineEnd(s, q) - 1>> ELSE <<0, 0>>

\* the revision pattern at position i: rev with its dot is tried before
\* revision, and one alternative alone can be followed by the run
RevisionPatternAt(s, low, i) ==
    LET short == KeywordTokenAt(s, low, {<<"r", "e", "v">>}, {<<"r", "e", "v">>},
                                {":"} \cup Whitespace, RevisionChars, i)
    IN  IF short # <<0, 0>> THEN short
        ELSE KeywordTokenAt(s, low, {<<"r", "e", "v", "i", "s", "i", "o", "n">>}, {},
                            {":"} \cup Whitespace, RevisionChars, i)

\* the scale pattern at position i: 1:\d+ is a case of \d+:\d+
ScalePatternAt(s, low, i) ==
    LET j == AfterKeyword(low, {ScaleKeyword}, {}, i)
        r == SkipWhile(s, j, {":"} \cup Whitespace)
        c == SkipWhile(s, r, Digits)
        e == SkipWhile(s, c + 1, Digits)
    IN  IF j > 0 /\ r > j /\ c > r /\ c <= Len(s) /\ s[c] = ":" /\ e > c + 1
        THEN <<r, e - 1>> ELSE <<0, 0>>

\* the pattern of a field at position i
FieldPatternAt(field, s, low, i) ==
    CASE field = "title" -> TitlePatternAt(s, low, i)
      [] field = "number" -> KeywordTokenAt(s, low, NumberKeywords, {<<"n", "o">>},
                                            {":", "#"} \cup Whitespace, TokenChars, i)
      [] field = "revision" -> RevisionPatternAt(s, low, i)
      [] field = "scale" -> ScalePatternAt(s, low, i)

\* re.search of the pattern of a field: group 1 of the leftmost match, None
\* when the pattern matches nowhere
FieldSearchIn(field, s, low) ==
    LET hits == {i \in 1..Len(s) : FieldPatternAt(field, s, low, i) # <<0, 0>>}
    IN  IF hits = {} THEN None
        ELSE LET g == FieldPatternAt(field, s, low, Min(hits)) IN SubSeq(s, g[1], g[2])

\* metadata[field]: match.group(1).strip() if there is a match
field_lookup(field, txt) ==
    LET group1 == FieldSearchIn(field, txt, Lower(txt))
    IN  IF group1 # None THEN Strip(group1) ELSE None

\* the title taken from the first element when the text has none
extract_drawing_metadata_title_from_elements(txt, elems) ==
    [field \in {"title", "number", "revision", "scale"} |->
        IF field = "title" /\ field_lookup(field, txt) = None /\ elems # <<>>
        THEN elems[1].label
        ELSE field_lookup(field, txt)]

extract_drawing_metadata(txt, elems) ==
    [field \in {"title", "number", "revision", "scale"} |-> field_lookup(field, txt)]

(***************************************************************************)
(* json.loads (src/backend/qwen_vision_service.py), on the JSON the model  *)
(* texts are written in: integers, strings without escapes, arrays,        *)
(* objects and null.  A value is a record with its kind.                   *)
(***************************************************************************)
Quote == "\""

\* the grave accent, written by its code point
Backtick == "U+0060"

JNull == [kind |-> "null"]

JNumber(n) == [kind |-> "number", num |-> n]

JString(str) == [kind |-> "string", str |-> str]

JArray(items) == [kind |-> "array", items |-> items]

\* an object keeps its members in the order of the text
JObject(keys, vals) == [kind |-> "object", keys |-> keys, vals |-> vals]

\* the whitespace of the JSON grammar
JsonWhitespace == {" ", "\t", NL}

\* the character at position i, the empty string after the end
CharAt(s, i) == IF i >= 1 /\ i <= Len(s) THEN s[i] ELSE ""

Parsed(value, next) == [ok |-> TRUE, value |-> value, next |-> next]

\* a string from its opening quote at position i: the characters up to the
\* next quote; a newline or a tab inside a string is a decode error
ParseString(s, i) ==
    LET j == SkipWhile(s, i + 1, {c \in Range(s) : c # Quote})
        str == SubSeq(s, i + 1, j - 1)
    IN  IF j <= Len(s) /\ \A k \in 1..Len(str) : str[k] \notin {NL, "\t"}
        THEN Parsed(JString(str), j + 1)
        ELSE NoMatch

\* an integer at position i: -?(0|[1-9]\d*)
ParseNumber(s, i) ==
    LET d == IF CharAt(s, i) = "-" THEN i + 1 ELSE i
        e == IF CharAt(s, d) = "0" THEN d + 1 ELSE SkipWhile(s, d, Digits)
    IN  IF e > d
        THEN Parsed(JNumber(IF d > i THEN 0 - ToInt(SubSeq(s, d, e - 1))
                            ELSE ToInt(SubSeq(s, d, e - 1))), e)
        ELSE NoMatch

RECURSIVE ParseValue(_, _), ParseElements(_, _, _), ParseMembers(_, _, _, _)

\* what follows a value of an array: a comma and the next value, or the
\* closing bracket
AfterElement(s, v, acc) ==
    IF ~v.ok THEN NoMatch
    ELSE LET m == SkipWhile(s, v.next, JsonWhitespace)
         IN  IF CharAt(s, m) = "," THEN ParseElements(s, m + 1, Append(acc, v.value))
             ELSE IF CharAt(s, m) = "]" THEN Parsed(JArray(Append(acc, v.value)), m + 1)
             ELSE NoMatch

\* the values of an array from position i on, acc the values before them
ParseElements(s, i, acc) ==
    IF acc = <<>> /\ CharAt(s, SkipWhile(s, i, JsonWhitespace)) = "]"
    THEN Parsed(JArray(<<>>), SkipWhile(s, i, JsonWhitespace) + 1)
    ELSE AfterElement(s, ParseValue(s, i), acc)

\* what follows a member of an object: a comma and the next member, or the
\* closing brace
AfterMember(s, key, v, keys, vals) ==
    IF ~v.ok THEN NoMatch
    ELSE LET m == SkipWhile(s, v.next, JsonWhitespace)
         IN  IF CharAt(s, m) = ","
             THEN ParseMembers(s, m + 1, Append(keys, key), Append(vals, v.value))
             ELSE IF CharAt(s, m) = "}"
             THEN Parsed(JObject(Append(keys, key), Append(vals, v.value)), m + 1)
             ELSE NoMatch

\* the value of a member after its key: a colon and a value
AfterKey(s, k, keys, vals) ==
    IF ~k.ok THEN NoMatch
    ELSE LET c == SkipWhile(s, k.next, JsonWhitespace)
         IN  IF CharAt(s, c) = ":"
             THEN AfterMember(s, k.value.str, ParseValue(s, c + 1), keys, vals)
             ELSE NoMatch

\* the members of an object from position i on
ParseMembersAt(s, j, keys, vals) ==
    IF keys = <<>> /\ CharAt(s, j) = "}" THEN Parsed(JObject(<<>>, <<>>), j + 1)
    ELSE IF CharAt(s, j) = Quote THEN AfterKey(s, ParseString(s, j), keys, vals)
    ELSE NoMatch

ParseMembers(s, i, keys, vals) ==
    ParseMembersAt(s, SkipWhile(s, i, JsonWhitespace), keys, vals)

\* the value that starts at position j
ParseValueAt(s, j) ==
    CASE CharAt(s, j) = Quote -> ParseString(s, j)
      [] CharAt(s, j) = "[" -> ParseElements(s, j + 1, <<>>)
      [] CharAt(s, j) = "{" -> ParseMembers(s, j + 1, <<>>, <<>>)
      [] CharAt(s, j) \in Digits \cup {"-"} -> ParseNumber(s, j)
      [] OccursAt(s, <<"n", "u", "l", "l">>, j) -> Parsed(JNull, j + 4)
      [] OTHER -> NoMatch

ParseValue(s, i) == ParseValueAt(s, SkipWhile(s, i, JsonWhitespace))

\* json.loads: one value and nothing but whitespace around it; NoMatch
\* stands for a JSONDecodeError
LoadsResult(s, v) ==
    IF v.ok /\ SkipWhile(s, v.next, JsonWhitespace) > Len(s)
    THEN [ok |-> TRUE, value |-> v.value]
    ELSE NoMatch

json_loads(s) == LoadsResult(s, ParseValue(s, 1))

(***************************************************************************)
(* parse_grounding_json (src/backend/qwen_vision_service.py)               *)
(***************************************************************************)
FenceOpen == <<Backtick, Backtick, Backtick, "j", "s", "o", "n">>

FenceClose == <<NL, Backtick, Backtick, Backtick>>

\* ```json\s*\n(.*?)\n``` (DOTALL) at position i: group 1, None when the
\* pattern does not match there.  The greedy \s* is given back to the last
\* newline of the whitespace after which a closing fence follows, and the
\* lazy group ends at the first closing fence.
FencedAtWith(s, j, run) ==
    LET nls == {p \in j..(run - 1) :
                   s[p] = NL /\ \E q \in (p + 1)..Len(s) : OccursAt(s, FenceClose, q)}
    IN  IF nls = {} THEN None
        ELSE SubSeq(s, Max(nls) + 1,
                    Min({q \in (Max(nls) + 1)..Len(s) : OccursAt(s, FenceClose, q)}) - 1)

FencedAt(s, i) ==
    IF OccursAt(s, FenceOpen, i)
    THEN FencedAtWith(s, i + Len(FenceOpen), SkipWhile(s, i + Len(FenceOpen), Whitespace))
    ELSE None

\* \[\s*\{.*?\}\s*\] (DOTALL) at position i: group 0, None when the pattern
\* does not match there.  The lazy .*? ends at the first closing brace that
\* whitespace and a closing bracket follow.
BareAtWith(s, i, k) ==
    LET ends == {c \in (k + 1)..Len(s) :
                    s[c] = "}" /\ CharAt(s, SkipWhile(s, c + 1, Whitespace)) = "]"}
    IN  IF CharAt(s, k) = "{" /\ ends # {}
        THEN SubSeq(s, i, SkipWhile(s, Min(ends) + 1, Whitespace))
        ELSE None

BareAt(s, i) ==
    IF s[i] = "[" THEN BareAtWith(s, i, SkipWhile(s, i + 1, Whitespace)) ELSE None

\* re.search: the leftmost position where the pattern matches
FirstOf(found) == IF found = <<>> THEN None ELSE found[1]

FencedSearch(s) ==
    FirstOf(SelectSeq([i \in 1..Len(s) |-> FencedAt(s, i)], LAMBDA g : g # None))

BareSearch(s) ==
    FirstOf(SelectSeq([i \in 1..Len(s) |-> BareAt(s, i)], LAMBDA g : g # None))

\* json_str: group 1 of the fenced block if the text has one, else the bare
\* array, else None (the function returns its empty list)
FencedOrBare(fenced, s) == IF fenced # None THEN fenced ELSE BareSearch(s)

json_str_of(s) == FencedOrBare(FencedSearch(s), s)

BBoxKey == <<"b", "b", "o", "x", "_", "2", "d">>

LabelKey == <<"l", "a", "b", "e", "l">>

SubLabelKey == <<"s", "u", "b", "_", "l", "a", "b", "e", "l">>

\* key in item, for a dict
HasKey(obj, key) == \E k \in 1..Len(obj.keys) : obj.keys[k] = key

\* item[key]: of the members with one key the last stands
Get(obj, key) == obj.vals[Max({k \in 1..Len(obj.keys) : obj.keys[k] = key})]

\* item.get(key, default)
GetOr(obj, key, default) == IF HasKey(obj, key) THEN Get(obj, key) ELSE default

\* 'bbox_2d' in item: a key of a dict, a substring of a str, an element of a
\* list; a TypeError on a number and on None
HoldsBBox(item) ==
    CASE item.kind = "object" -> IF HasKey(item, BBoxKey) THEN "yes" ELSE "no"
      [] item.kind = "string" -> IF Contains(item.str, BBoxKey) THEN "yes" ELSE "no"
      [] item.kind = "array" ->
             IF \E k \in 1..Len(item.items) : item.items[k] = JString(BBoxKey)
             THEN "yes" ELSE "no"
      [] OTHER -> "TypeError"

RECURSIVE DistinctKeys(_)
\* the keys of a dict, each once, in the order of their first occurrence
DistinctKeys(keys) ==
    IF keys = <<>> THEN <<>>
    ELSE LET front == DistinctKeys(SubSeq(keys, 1, Len(keys) - 1))
             last == keys[Len(keys)]
         IN  IF \E k \in 1..Len(front) : front[k] = last THEN front
             ELSE Append(front, last)

\* what iterating a value yields: the elements of a list, the characters of
\* a str, the keys of a dict; None for a value that is not iterable
Iterate(v) ==
    CASE v.kind = "array" -> v.items
      [] v.kind = "string" -> [k \in 1..Len(v.str) |-> JString(<<v.str[k]>>)]
      [] v.kind = "object" ->
             [k \in 1..Len(DistinctKeys(v.keys)) |-> JString(DistinctKeys(v.keys)[k])]
      [] OTHER -> None

\* float(x) of a number, and of a str that is an integer numeral between
\* blanks; a ValueError for another str, a TypeError for the other kinds
FloatOf(v) ==
    CASE v.kind = "number" -> [ok |-> TRUE, num |-> v.num]
      [] v.kind = "string" ->
             LET t == Strip(v.str)
                 signed == t # <<>> /\ t[1] \in {"-", "+"}
                 digits == IF signed THEN Tail(t) ELSE t
             IN  IF digits # <<>> /\ \A k \in 1..Len(digits) : digits[k] \in Digits
                 THEN [ok |-> TRUE,
                       num |-> IF signed /\ t[1] = "-" THEN 0 - ToInt(digits)
                               ELSE ToInt(digits)]
                 ELSE [ok |-> FALSE, exception |-> "ValueError"]
      [] OTHER -> [ok |-> FALSE, exception |-> "TypeError"]

RECURSIVE Numeral(_)
\* str(n) of a natural number
Numeral(n) ==
    IF n < 10 THEN <<CHOOSE d \in Digits : ToInt(<<d>>) = n>>
    ELSE Numeral(n \div 10) \o Numeral(n % 10)

\* bool(sub_label)
Truthy(v) ==
    CASE v.kind = "string" -> v.str # <<>>
      [] v.kind = "number" -> v.num # 0
      [] v.kind = "array" -> v.items # <<>>
      [] v.kind = "object" -> v.keys # <<>>
      [] OTHER -> FALSE

\* the value as an f-string writes it (a str or an integer)
Formatted(v) ==
    CASE v.kind = "string" -> v.str
      [] v.kind = "number" ->
             IF v.num < 0 THEN <<"-">> \o Numeral(0 - v.num) ELSE Numeral(v.num)

\* f"{label} {sub_label}".strip() if sub_label else label
full_label(label, sub_label) ==
    IF Truthy(sub_label) THEN Strip(label \o <<" ">> \o Formatted(sub_label)) ELSE label

ViewWords == {<<"v", "i", "e", "w">>,
             <<"s", "e", "c", "t", "i", "o", "n">>,
             <<"d", "e", "t", "a", "i", "l">>,
             <<"i", "s", "o", "m", "e", "t", "r", "i", "c">>,
             <<"p", "e", "r", "s", "p", "e", "c", "t", "i", "v", "e">>}

GroundingDimensionWords == {<<"d", "i", "m", "e", "n", "s", "i", "o", "n">>,
                           <<"m", "e", "a", "s", "u", "r", "e", "m", "e", "n", "t">>,
                           <<DiameterLower>>,
                           <<"d", "i", "a", "m", "e", "t", "e", "r">>,
                           <<"r", "a", "d", "i", "u", "s">>,
                           <<"r">>,
                           <<PlusMinus>>}

GroundingPartWords == {<<"p", "a", "r", "t">>,
                      <<"i", "t", "e", "m">>,
                      <<"p", "o", "s">>,
                      <<"c", "a", "l", "l", "o", "u", "t">>}

GroundingTableWords == {<<"t", "a", "b", "l", "e">>,
                       <<"b", "o", "m">>,
                       <<"b", "i", "l", "l", " ", "o", "f", " ", "m", "a", "t", "e", "r", "i", "a", "l">>}

GroundingTitleWords == {<<"t", "i", "t", "l", "e">>,
                       <<"d", "r", "a", "w", "i", "n", "g", " ", "n", "u", "m", "b", "e", "r">>,
                       <<"r", "e", "v", "i", "s", "i", "o", "n">>}

\* any(word in label_lower for word in words)
AnyIn(words, label_lower) == \E word \in words : Contains(label_lower, word)

classify_element_type(label) ==
    IF AnyIn(ViewWords, Lower(label)) THEN "view"
    ELSE IF AnyIn(GroundingDimensionWords, Lower(label)) THEN "dimension"
    ELSE IF AnyIn(GroundingPartWords, Lower(label)) THEN "part_number"
    ELSE IF AnyIn(GroundingTableWords, Lower(label)) THEN "table"
    ELSE IF AnyIn(GroundingTitleWords, Lower(label)) THEN "title"
    ELSE "text"

\* an item of the loop leaves the loop by continue, by append or by an
\* exception
Skipped == [outcome |-> "continue"]

Appended(element) == [outcome |-> "append", element |-> element]

Raised(exception) == [outcome |-> "raise", exception |-> exception]

\* BoundingBox(x1=float(x1), ...): the four values as they stand, the first
\* value that float() refuses raises
grounding_element(label, sub_label, coords) ==
    LET f == [k \in 1..4 |-> FloatOf(coords[k])]
        refused == {k \in 1..4 : ~f[k].ok}
    IN  IF refused # {} THEN Raised(f[Min(refused)].exception)
        ELSE Appended(DetectedElement(full_label(label, sub_label),
                                      classify_element_type(label),
                                      BoundingBox(Rat(f[1].num, 1), Rat(f[2].num, 1),
                                                  Rat(f[3].num, 1), Rat(f[4].num, 1))))

\* x1, y1, x2, y2 = item['bbox_2d'], the two lookups, and label.lower()
item_with_box(coords, label, sub_label) ==
    IF coords = None THEN Raised("TypeError")
    ELSE IF Len(coords) # 4 THEN Raised("ValueError")
    ELSE IF label.kind # "string" THEN Raised("AttributeError")
    ELSE grounding_element(label.str, sub_label, coords)

\* one pass of the loop body
item_result(item) ==
    IF HoldsBBox(item) = "TypeError" THEN Raised("TypeError")
    ELSE IF HoldsBBox(item) = "no" THEN Skipped
    ELSE IF item.kind # "object" THEN Raised("TypeError")
    ELSE item_with_box(Iterate(Get(item, BBoxKey)),
                       GetOr(item, LabelKey, JString(<<"u", "n", "k", "n", "o", "w", "n">>)),
                       GetOr(item, SubLabelKey, JString(<<>>)))

RECURSIVE convert_items(_, _)
\* the loop: it ends at the first item that raises, with the elements
\* appended so far
convert_items(items, elems) ==
    IF items = <<>> THEN [elements |-> elems, exception |-> "none"]
    ELSE LET r == item_result(Head(items))
         IN  CASE r.outcome = "continue" -> convert_items(Tail(items), elems)
               [] r.outcome = "append" ->
                      convert_items(Tail(items), Append(elems, r.element))
               [] r.outcome = "raise" ->
                      [elements |-> elems, exception |-> r.exception]

\* the body of the try statement on the JSON text found (None: no JSON text)
try_body_on(json_str) ==
    IF json_str = None THEN [elements |-> <<>>, exception |-> "none"]
    ELSE LET bbox_data == json_loads(json_str)
         IN  IF ~bbox_data.ok THEN [elements |-> <<>>, exception |-> "JSONDecodeError"]
             ELSE convert_items(IF bbox_data.value.kind = "array"
                                THEN bbox_data.value.items
                                ELSE <<bbox_data.value>>, <<>>)

try_body(txt) == try_body_on(json_str_of(txt))

\* a handler that catches ValueError and its subclasses only
except_ValueError(exception) == exception \in {"ValueError", "JSONDecodeError"}

\* except Exception: every exception the body raises is caught
except_Exception(exception) ==
    exception \in {"ValueError", "JSONDecodeError", "TypeError", "AttributeError"}

Returned(elems) == [elements |-> elems, raised |-> FALSE]

Propagated == [elements |-> <<>>, raised |-> TRUE]

Outcome(body) ==
    IF body.exception = "none" \/ except_Exception(body.exception)
    THEN Returned(body.elements)
    ELSE Propagated

\* parse_grounding_json with every box rescaled by the image size as
\* parse_detections rescales it
parse_grounding_json_rescaled(txt, width, height) ==
    LET r == Outcome(try_body(txt))
    IN  [r EXCEPT !.elements =
             [k \in 1..Len(r.elements) |->
                 [r.elements[k] EXCEPT !.bbox =
                     BoundingBox(Rat(@.x1.num * width, CoordScale),
                                 Rat(@.y1.num * height, CoordScale),
                                 Rat(@.x2.num * width, CoordScale),
                                 Rat(@.y2.num * height, CoordScale))]]]

parse_grounding_json(txt, width, height) == Outcome(try_body(txt))

(***************************************************************************)
(* Inputs of the tag path                                                  *)
(***************************************************************************)
\* the longest label, in words
MaxWords == 2

Vocabulary == {<<DiameterSign, "2", "5", "m", "m">>,
              <<"i", "t", "e", "m">>,
              <<"I", "T", "E", "M">>,
              <<"p", "o", "s">>,
              <<"p", "a", "r", "t">>,
              <<"P", "A", "R", "T">>,
              <<"p", "/", "n">>,
              <<"n", "o", ".">>,
              <<"5">>,
              <<"1", "2", "-", "4">>,
              <<"q", "t", "y">>,
              <<"t", "i", "t", "l", "e">>,
              <<"d", "r", "a", "w", "i", "n", "g">>,
              <<"a", "b", "c">>,
              <<"v", "i", "e", "w">>}

RECURSIVE SeqsUpTo(_, _)
\* the sequences over S of length at most n
SeqsUpTo(S, n) ==
    IF n = 0 THEN {<<>>}
    ELSE LET shorter == SeqsUpTo(S, n - 1)
         IN  shorter \cup {Append(q, x) : q \in shorter, x \in S}

\* the labels: at most MaxWords words, one space between two words
Labels == {JoinWith(<<" ">>, ws) : ws \in SeqsUpTo(Vocabulary, MaxWords)}

FullFrame == <<<<"0">>, <<"0">>, <<"9", "9", "9">>, <<"9", "9", "9">>>>

CoordTuples == {FullFrame,
                <<<<"1", "0", "0">>, <<"2", "0", "0">>, <<"3", "0", "0">>, <<"4", "0", "0">>>>,
                <<<<"3", "0", "0">>, <<"4", "0", "0">>, <<"1", "0", "0">>, <<"1", "2", "0", "0">>>>}

\* the two numeric formats of the upstream output: "x1,y1" and "x1, y1"
CoordSeparators == {<<",">>, <<",", " ">>}

\* one well-formed occurrence of the tag grammar
Tag(label, c, sep) ==
    <<REF>> \o label \o <<ENDREF, DET, "[", "[">>
        \o c[1] \o sep \o c[2] \o sep \o c[3] \o sep \o c[4]
        \o <<"]", "]", ENDDET>>

\* what may stand before and after an occurrence: nothing, prose, a
\* reference with no detection part, an occurrence that lacks a coordinate,
\* an unterminated occurrence, a further well-formed occurrence
Surroundings == {<<>>,
                 <<"s", "e", "e", " ", "n", "o", "t", "e", NL>>,
                 <<REF, "x", ENDREF>>,
                 <<REF, "x", ENDREF, DET, "[", "[", "1", ",", "2", ",", "3", "]", "]", ENDDET>>,
                 <<REF, "x", ENDREF, DET, "[", "[", "1", ",", "2", ",", "3", ",", "4", "]", "]">>,
                 <<REF, "q", "t", "y", ENDREF, DET, "[", "[", "1", "0", ",", "2", "0", ",", "3", "0", ",", "4", "0", "]", "]", ENDDET>>}

SceneLabels == {<<"a", "b", "c">>, <<" ", "R", "5", " ">>}

TagTexts ==
    {Tag(l, FullFrame, <<",">>) : l \in Labels}
    \cup {pre \o Tag(l, c, sep) \o post :
             l \in SceneLabels, c \in CoordTuples, sep \in CoordSeparators,
             pre \in Surroundings, post \in Surroundings}

ImageSizes == {<<1, 1>>, <<640, 480>>, <<1000, 2000>>}

(***************************************************************************)
(* The tag path: one call of parse_detections                              *)
(***************************************************************************)
Init ==
    /\ pc = "parse_detections"
    /\ text \in TagTexts
    /\ \E size \in ImageSizes : img_width = size[1] /\ img_height = size[2]
    /\ elements = <<>>
    /\ dimensions = <<>>
    /\ part_numbers = <<>>
    /\ tables = <<>>
    /\ metadata = NoMetadata
    /\ cleaned_text = None
    /\ NoRequests
    /\ grounding = TRUE

ParseDetections ==
    /\ pc = "parse_detections"
    /\ LET matches == FindTags(text, 1)
       IN  IF conversion_raises(matches, img_width, img_height)
           THEN /\ elements' = elements
                /\ pc' = "raised"
           ELSE /\ elements' = elements_of(matches, img_width, img_height)
                /\ pc' = "done"
    /\ UNCHANGED <<text, img_width, img_height, dimensions, part_numbers, tables, metadata, cleaned_text, grounding,
                   sessionVars, engineVars, batchVars>>

Next == ParseDetections

Spec == Init /\ [][Next]_vars

(***************************************************************************)
(* The field extractors on a list of elements                              *)
(***************************************************************************)
\* the longest list of elements
MaxElements == 2

ExtractLabels == {<<DiameterSign, "2", "5", " ", PlusMinus, "0", ".", "1", "m", "m">>,
                 <<DiameterSign, "2", "5", "m", "m", " ", PlusMinus, "0", ".", "1">>,
                 <<"R", "5", Degree>>,
                 <<"4", "5", Degree>>,
                 <<EmptySetSign, "3", ".", "5", "i", "n">>,
                 <<"2", "5">>,
                 <<"m", "m">>,
                 <<"i", "t", "e", "m", " ", "5">>,
                 <<"N", "o", ".", " ", "A", "-", "7">>,
                 <<"1", "2", "-", "4">>,
                 <<"p", "o", "s">>}

ElementTypes == {"dimension", "part_number", "text"}

\* The extractors copy an element's bbox and never read it: the k-th element
\* of an input list gets a box of its own.
PositionBox(k) ==
    BoundingBox(Rat(10 * k, 1), Rat(20 * k, 1), Rat(10 * k + 5, 1), Rat(20 * k + 5, 1))

ElementLists ==
    {[k \in 1..Len(q) |-> DetectedElement(q[k][1], q[k][2], PositionBox(k))] :
        q \in SeqsUpTo(ExtractLabels \X ElementTypes, MaxElements)}

InitExtract ==
    /\ pc = "extract_dimensions"
    /\ text = <<>>
    /\ img_width = 0
    /\ img_height = 0
    /\ elements \in ElementLists
    /\ dimensions = <<>>
    /\ part_numbers = <<>>
    /\ tables = <<>>
    /\ metadata = NoMetadata
    /\ cleaned_text = None
    /\ NoRequests
    /\ grounding = TRUE

ExtractDimensions ==
    /\ pc = "extract_dimensions"
    /\ dimensions' = extract_dimensions(text, elements)
    /\ pc' = "extract_part_numbers"
    /\ UNCHANGED <<text, img_width, img_height, elements, part_numbers, tables, metadata, cleaned_text, grounding,
                   sessionVars, engineVars, batchVars>>

ExtractPartNumbers ==
    /\ pc = "extract_part_numbers"
    /\ part_numbers' = extract_part_numbers(text, elements)
    /\ pc' = "done"
    /\ UNCHANGED <<text, img_width, img_height, elements, dimensions, tables, metadata, cleaned_text, grounding,
                   sessionVars, engineVars, batchVars>>

NextExtract == ExtractDimensions \/ ExtractPartNumbers

SpecExtract == InitExtract /\ [][NextExtract]_vars

(***************************************************************************)
(* The table parser on a text of lines                                     *)
(***************************************************************************)
\* the longest text, in lines
MaxLines == 4

TableLines == {<<"|", " ", "I", "t", "e", "m", " ", "|", " ", "Q", "t", "y", " ", "|", " ", "D", "e", "s", "c", "r", "i", "p", "t", "i", "o", "n", " ", "|">>,
              <<"|", " ", "-", "-", "-", " ", "|", " ", "-", "-", "-", " ", "|", " ", "-", "-", "-", " ", "|">>,
              <<"|", " ", "1", " ", "|", " ", "2", " ", "|", " ", "B", "r", "a", "c", "k", "e", "t", " ", "|">>,
              <<"|", " ", "2", " ", "|", " ", "1", " ", "|", " ", "B", "o", "l", "t", " ", "|">>,
              <<"|", " ", "3", " ", "|", " ", " ", "|", " ", "N", "u", "t", " ", "|">>,
              <<"n", "o", "t", "e">>,
              <<"|">>}

\* a text: its lines joined by newlines, with or without a final newline
TableTexts ==
    {JoinWith(<<NL>>, ls) \o last :
        ls \in SeqsUpTo(TableLines, MaxLines), last \in {<<>>, <<NL>>}}

InitTables ==
    /\ pc = "extract_tables"
    /\ text \in TableTexts
    /\ img_width = 0
    /\ img_height = 0
    /\ elements = <<>>
    /\ dimensions = <<>>
    /\ part_numbers = <<>>
    /\ tables = <<>>
    /\ metadata = NoMetadata
    /\ cleaned_text = None
    /\ NoRequests
    /\ grounding = TRUE

ExtractTables ==
    /\ pc = "extract_tables"
    /\ tables' = extract_tables(text)
    /\ pc' = "done"
    /\ UNCHANGED <<text, img_width, img_height, elements, dimensions, part_numbers, metadata, cleaned_text, grounding,
                   sessionVars, engineVars, batchVars>>

NextTables == ExtractTables

SpecTables == InitTables /\ [][NextTables]_vars

(***************************************************************************)
(* Claims about the tag path (Spec)                                        *)
(***************************************************************************)
WholeImage ==
    BoundingBox(Rat(0, 1), Rat(0, 1), Rat(img_width, 1), Rat(img_height, 1))

\* C1: for every positive image width W and height H, an occurrence with the
\* normalized coordinates (0,0,999,999) is mapped to the pixel box (0,0,W,H):
\* 999 maps exactly to the extent of its axis.
C1_FullFrameMapsToImage ==
    pc = "done" =>
        \A k \in 1..Len(elements) :
            FindTags(text, 1)[k].coords = FullFrame => elements[k].bbox = WholeImage

\* the classifier's rules in the order the claim gives them
RuleOrder == <<"dimension", "part_number", "table", "title", "text">>

RuleMatches(rule, label) ==
    CASE rule = "dimension" -> IsDimensionLabel(label)
      [] rule = "part_number" -> IsPartNumberLabel(label)
      [] rule = "table" -> IsTableLabel(label)
      [] rule = "title" -> IsTitleLabel(label)
      [] rule = "text" -> TRUE

RulesMatching(label) == {r \in 1..Len(RuleOrder) : RuleMatches(RuleOrder[r], label)}

DiameterItem == <<DiameterSign, "2", "5", "m", "m", " ", "i", "t", "e", "m">>

\* C2: the classifier applies its rules in the order dimension, part_number,
\* table, title, text, and the first rule that matches decides: the type of
\* every element is the earliest rule its label satisfies, whatever later
\* rules it satisfies too; the label of a diameter followed by "item" is a
\* dimension, not a table.
C2_FirstMatchingRuleWins ==
    pc = "done" =>
        \A k \in 1..Len(elements) :
            /\ elements[k].element_type = RuleOrder[Min(RulesMatching(elements[k].label))]
            /\ elements[k].label = DiameterItem => elements[k].element_type = "dimension"

\* C2, witness: an element whose label satisfies the dimension rule and the
\* table rule was classified
C2_Witness ==
    /\ pc = "done"
    /\ \E k \in 1..Len(elements) :
          /\ elements[k].label = DiameterItem
          /\ IsTableLabel(elements[k].label)
          /\ elements[k].element_type = "dimension"

\* what stands between the first symbol of a text and its first <|/ref|>
LabelSpan(txt) ==
    SubSeq(txt, 2, Min({j \in 1..(Len(txt) + 1) : j = Len(txt) + 1 \/ txt[j] = ENDREF}) - 1)

TagPathTypes == {"dimension", "part_number", "table", "title", "text"}

\* C3: for every label, the empty one included, the tag-path classifier
\* returns one of dimension, part_number, table, title, text: a well-formed
\* occurrence always yields its element, and no element of parse_detections
\* has the type view.
C3_TypeInClosedSetNeverView ==
    pc = "done" =>
        /\ \A k \in 1..Len(elements) :
              /\ elements[k].element_type \in TagPathTypes
              /\ elements[k].element_type # "view"
        /\ text = Tag(LabelSpan(text), FullFrame, <<",">>) =>
              /\ Len(elements) = 1
              /\ elements[1].label = Strip(LabelSpan(text))

\* C3, witness: the empty label was classified, as text
C3_Witness ==
    /\ pc = "done"
    /\ \E k \in 1..Len(elements) :
          elements[k].label = <<>> /\ elements[k].element_type = "text"

\* the prefix keywords of the claim, and tokens with no unit and no symbol
PrefixKeywords == {<<"p", "/", "n">>,
                  <<"p", "a", "r", "t">>,
                  <<"i", "t", "e", "m">>,
                  <<"p", "o", "s">>,
                  <<"n", "o", ".">>}

PlainTokens == {<<"5">>,
               <<"1", "2", "-", "4">>}

\* C4: for every prefix keyword k of p/n, part, item, pos, no., in any letter
\* case, and every token t without unit or dimension symbol, the label "k t"
\* is classified part_number.
C4_KeywordTokenIsPartNumber ==
    pc = "done" =>
        \A k \in 1..Len(elements) :
            (\E kw \in Vocabulary, t \in PlainTokens :
                /\ Lower(kw) \in PrefixKeywords
                /\ elements[k].label = kw \o <<" ">> \o t)
            => elements[k].element_type = "part_number"

(***************************************************************************)
(* Claims about the field extractors (SpecExtract)                         *)
(***************************************************************************)
\* labels with a diameter prefix, a number, a tolerance and the unit mm, the
\* unit after the tolerance and before it
ToleranceThenUnit == <<DiameterSign, "2", "5", " ", PlusMinus, "0", ".", "1", "m", "m">>

UnitThenTolerance == <<DiameterSign, "2", "5", "m", "m", " ", PlusMinus, "0", ".", "1">>

\* C5: for a dimension-typed element whose label holds a diameter prefix, a
\* number, a tolerance and a unit, extract_dimensions reports the unit and the
\* tolerance of the label whatever their order after the number: both labels
\* yield the type diameter, the unit mm, the tolerance of the label and the
\* label as value.
C5_UnitAndToleranceInAnyOrder ==
    pc # "extract_dimensions" =>
        /\ \A k \in 1..Len(elements) :
              /\ elements[k].element_type = "dimension"
              /\ elements[k].label \in {ToleranceThenUnit, UnitThenTolerance}
              => \E d \in 1..Len(dimensions) : dimensions[d].bbox = elements[k].bbox
        /\ \A d \in 1..Len(dimensions) :
              dimensions[d].value \in {ToleranceThenUnit, UnitThenTolerance} =>
                  /\ dimensions[d].dimension_type = "diameter"
                  /\ dimensions[d].unit = <<"m", "m">>
                  /\ dimensions[d].tolerance = <<PlusMinus, "0", ".", "1">>

DimensionTypes == {"linear", "diameter", "radius", "angular"}

\* the character right before the first number of a label, None when the
\* label starts with the number
CarriedPrefix(label) ==
    LET d0 == Min({i \in 1..Len(label) : label[i] \in Digits})
    IN  IF d0 > 1 THEN <<label[d0 - 1]>> ELSE None

\* C6: dimension_type goes by priority: a label whose number carries the
\* prefix of a diameter is diameter and one whose number carries R is radius,
\* even when the label also holds a degree sign or a unit; with no prefix the
\* type is angular if the label holds a degree sign and linear otherwise; the
\* type is always one of linear, diameter, radius, angular.
C6_PrefixBeforeDegreeBeforeLinear ==
    pc # "extract_dimensions" =>
        \A d \in 1..Len(dimensions) :
            LET label == dimensions[d].value
                type == dimensions[d].dimension_type
                prefix == CarriedPrefix(label)
            IN  /\ type \in DimensionTypes
                /\ prefix \in {<<DiameterSign>>, <<EmptySetSign>>} => type = "diameter"
                /\ prefix = <<"R">> => type = "radius"
                /\ prefix \notin {<<DiameterSign>>, <<EmptySetSign>>, <<"R">>} =>
                      type = IF \E i \in 1..Len(label) : label[i] = Degree
                             THEN "angular" ELSE "linear"

\* C6, witness: a radius with a degree sign, a diameter with a unit and an
\* angle without prefix were typed
C6_Witness ==
    /\ pc # "extract_dimensions"
    /\ \E d \in 1..Len(dimensions) :
          /\ dimensions[d].value = <<"R", "5", Degree>>
          /\ dimensions[d].dimension_type = "radius"
    /\ \E d \in 1..Len(dimensions) :
          \/ /\ dimensions[d].value = UnitThenTolerance
             /\ dimensions[d].dimension_type = "diameter"
          \/ /\ dimensions[d].value = <<"4", "5", Degree>>
             /\ dimensions[d].dimension_type = "angular"

\* the strictly increasing maps from 1..n into 1..m
IncreasingMaps(n, m) ==
    {f \in [1..n -> 1..m] : \A a, b \in 1..n : a < b => f[a] < f[b]}

\* C7: for every list of elements, each Dimension of extract_dimensions comes
\* from an element of type dimension, in the order of the input, its value
\* the label of the element character for character and its bbox the bbox of
\* the element; elements of any other type produce no Dimension.
C7_DimensionsComeFromDimensionElements ==
    pc # "extract_dimensions" =>
        /\ \E f \in IncreasingMaps(Len(dimensions), Len(elements)) :
              \A d \in 1..Len(dimensions) :
                  /\ elements[f[d]].element_type = "dimension"
                  /\ dimensions[d].value = elements[f[d]].label
                  /\ dimensions[d].bbox = elements[f[d]].bbox
        /\ \A k \in 1..Len(elements) :
              elements[k].element_type # "dimension" =>
                  \A d \in 1..Len(dimensions) : dimensions[d].bbox # elements[k].bbox

\* C7, witness: of a text element with a number and a dimension element after
\* it, the second alone produced a Dimension
C7_Witness ==
    /\ pc # "extract_dimensions"
    /\ Len(elements) = 2
    /\ elements[1].element_type = "text"
    /\ elements[1].label = <<"2", "5">>
    /\ elements[2].element_type = "dimension"
    /\ Len(dimensions) = 1
    /\ dimensions[1].value = elements[2].label
    /\ dimensions[1].bbox = elements[2].bbox

\* what the structured pattern allows between the keyword and the token: a
\* dot after the keyword no, whitespace, one colon or hash, whitespace
IsFiller(f, keyword) ==
    LET dotted == keyword = <<"n", "o">> /\ f # <<>> /\ f[1] = "."
        rest == IF dotted THEN Tail(f) ELSE f
        marks == {i \in 1..Len(rest) : rest[i] \notin Whitespace}
    IN  /\ Cardinality(marks) <= 1
        /\ \A i \in marks : rest[i] \in {":", "#"}

\* the tokens of a label that follow a prefix keyword: the longest runs of
\* word characters and hyphens that start after a keyword and its filler
TokensAfterKeyword(label) ==
    LET low == Lower(label)
        follows(p) == \E kw \in PartKeywords, i \in 1..p :
                          /\ i + Len(kw) <= p
                          /\ OccursAt(low, kw, i)
                          /\ IsFiller(SubSeq(label, i + Len(kw), p - 1), kw)
    IN  {SubSeq(label, p, SkipWhile(label, p, TokenChars) - 1) :
            p \in {p \in 1..Len(label) : label[p] \in TokenChars /\ follows(p)}}

PartNumberElements == SelectSeq(elements, LAMBDA e : e.element_type = "part_number")

\* C8: extract_part_numbers returns one PartNumber per element of type
\* part_number, in the order of the input, and none for the other types; its
\* number is the token that follows the prefix keyword when the structured
\* pattern matches the label and the whole label otherwise, so the number of
\* a non-empty label is never empty.
C8_OnePartNumberPerPartNumberElement ==
    pc = "done" =>
        /\ Len(part_numbers) = Len(PartNumberElements)
        /\ \A k \in 1..Len(part_numbers) :
              LET label == PartNumberElements[k].label
                  number == part_numbers[k].number
                  tokens == TokensAfterKeyword(label)
              IN  /\ part_numbers[k].bbox = PartNumberElements[k].bbox
                  /\ IF tokens # {} THEN number \in tokens ELSE number = label
                  /\ label # <<>> => number # <<>>

\* C8, witness: one label gave the token after its keyword, another, without
\* keyword, gave itself, and an element of another type gave nothing
C8_Witness ==
    /\ pc = "done"
    /\ \E k \in 1..Len(part_numbers) : 
          /\ PartNumberElements[k].label = <<"N", "o", ".", " ", "A", "-", "7">>
          /\ part_numbers[k].number = <<"A", "-", "7">>
    /\ \/ \E k \in 1..Len(part_numbers) : 
             /\ PartNumberElements[k].label = <<"1", "2", "-", "4">>
             /\ part_numbers[k].number = <<"1", "2", "-", "4">>
       \/ Len(part_numbers) < Len(elements)

(***************************************************************************)
(* Claims about the table parser (SpecTables)                              *)
(***************************************************************************)
\* the lines of a text, without the empty one after a final newline
Lines(txt) ==
    LET ls == Split(txt, NL)
    IN  IF ls[Len(ls)] = <<>> THEN SubSeq(ls, 1, Len(ls) - 1) ELSE ls

OnlySeparatorChars(line) ==
    \A i \in 1..Len(line) : line[i] \in SeparatorChars \ {NL}

\* a pipe-delimited row: a line from a pipe to a pipe, with something between
IsPipeRow(line) ==
    /\ Len(line) >= 3
    /\ line[1] = "|"
    /\ line[Len(line)] = "|"

IsSeparatorRow(line) == IsPipeRow(line) /\ OnlySeparatorChars(line)

IsDataRow(line) == IsPipeRow(line) /\ ~OnlySeparatorChars(line)

\* the trimmed cells of a pipe-delimited row: what stands between its pipes,
\* without the empty pieces before the leading and after the trailing pipe
CellsBetweenPipes(line) ==
    LET parts == Split(line, "|")
    IN  [k \in 1..(Len(parts) - 2) |-> Strip(parts[k + 1])]

\* a header row, a separator row right after it and one or more body rows
IsTableBlock(lines) ==
    /\ Len(lines) >= 3
    /\ IsDataRow(lines[1])
    /\ IsSeparatorRow(lines[2])
    /\ \A k \in 3..Len(lines) : IsDataRow(lines[k])

\* C9: for a text of a pipe-delimited header row, a separator row right after
\* it and n >= 1 pipe-delimited body rows, extract_tables returns one table,
\* its headers the trimmed header cells in order and its n rows the trimmed
\* body cells in order, without the empty cells of the leading and trailing
\* pipes.
C9_BlockYieldsItsCells ==
    pc = "done" /\ IsTableBlock(Lines(text)) =>
        /\ Len(tables) = 1
        /\ tables[1].headers = CellsBetweenPipes(Lines(text)[1])
        /\ Len(tables[1].rows) = Len(Lines(text)) - 2
        /\ \A k \in 1..Len(tables[1].rows) :
              tables[1].rows[k].cells = CellsBetweenPipes(Lines(text)[k + 2])

\* a line in which the header of the pattern can stand: a pipe, something,
\* and the pipe that ends the line
HasHeader(line) ==
    /\ Len(line) >= 3
    /\ line[Len(line)] = "|"
    /\ \E i \in 1..(Len(line) - 2) : line[i] = "|"

\* a line in which a body row of the pattern can stand: the pipe that starts
\* the line, something, and a pipe
HasBodyRow(line) ==
    /\ Len(line) >= 3
    /\ line[1] = "|"
    /\ \E i \in 3..Len(line) : line[i] = "|"

\* the lines h+1..m are a separator: from the pipe that starts line h+1 to
\* the pipe that ends line m, nothing but dashes, colons, pipes and whitespace
IsSeparator(lines, h, m) ==
    /\ \A j \in (h + 1)..m : OnlySeparatorChars(lines[j])
    /\ lines[h + 1] # <<>> /\ lines[h + 1][1] = "|"
    /\ lines[m] # <<>> /\ lines[m][Len(lines[m])] = "|"
    /\ m = h + 1 => Len(lines[m]) >= 3

\* a complete block: a header, a separator directly after it, a body row
\* directly after the separator
HasCompleteBlock(txt) ==
    LET lines == Split(txt, NL)
    IN  \E h \in 1..Len(lines), m \in 1..Len(lines) :
            /\ h < m /\ m < Len(lines)
            /\ HasHeader(lines[h])
            /\ IsSeparator(lines, h, m)
            /\ HasBodyRow(lines[m + 1])

\* C10: extract_tables emits a table only for a complete block of header,
\* separator and at least one body row: pipe-delimited lines with no
\* separator row directly after the header, or a header and a separator with
\* no body row, produce no table at all.
C10_NoTableWithoutCompleteBlock ==
    pc = "done" =>
        /\ ~HasCompleteBlock(text) => tables = <<>>
        /\ (\A k \in 1..Len(Lines(text)) : IsDataRow(Lines(text)[k])) => tables = <<>>
        /\ /\ Len(Lines(text)) = 2
           /\ IsDataRow(Lines(text)[1])
           /\ IsSeparatorRow(Lines(text)[2])
           => tables = <<>>

\* C10, witness: a header and a separator row without body row, and in
\* another text pipe-delimited rows without separator row, gave no table
C10_Witness ==
    /\ pc = "done"
    /\ tables = <<>>
    /\ Len(Lines(text)) >= 2
    /\ IsDataRow(Lines(text)[1])
    /\ \/ Len(Lines(text)) = 2 /\ IsSeparatorRow(Lines(text)[2])
       \/ \A k \in 1..Len(Lines(text)) : IsDataRow(Lines(text)[k])

(***************************************************************************)
(* The table parser on a text of several tables                            *)
(***************************************************************************)
\* the longest text, in pieces
MaxPieces == 3

\* a piece is some lines: a table of one row, a table of two rows, a table
\* with a row of empty cells between two rows, a line of prose, a blank line
TablePieces == {<<<<"|", " ", "I", "t", "e", "m", " ", "|", " ", "Q", "t", "y", " ", "|", " ", "D", "e", "s", "c", "r", "i", "p", "t", "i", "o", "n", " ", "|">>,
                 <<"|", " ", "-", "-", "-", " ", "|", " ", "-", "-", "-", " ", "|", " ", "-", "-", "-", " ", "|">>,
                 <<"|", " ", "1", " ", "|", " ", "2", " ", "|", " ", "B", "r", "a", "c", "k", "e", "t", " ", "|">>>>,
               <<<<"|", " ", "I", "t", "e", "m", " ", "|", " ", "Q", "t", "y", " ", "|", " ", "D", "e", "s", "c", "r", "i", "p", "t", "i", "o", "n", " ", "|">>,
                 <<"|", " ", "-", "-", "-", " ", "|", " ", "-", "-", "-", " ", "|", " ", "-", "-", "-", " ", "|">>,
                 <<"|", " ", "1", " ", "|", " ", "2", " ", "|", " ", "B", "r", "a", "c", "k", "e", "t", " ", "|">>,
                 <<"|", " ", "2", " ", "|", " ", "1", " ", "|", " ", "B", "o", "l", "t", " ", "|">>>>,
               <<<<"|", " ", "P", "o", "s", " ", "|">>,
                 <<"|", ":", "-", ":", "|">>,
                 <<"|", " ", "7", " ", "|">>,
                 <<"|", " ", " ", "|">>,
                 <<"|", " ", "8", " ", "|">>>>,
               <<<<"n", "o", "t", "e">>>>,
               <<<<>>>>}

RECURSIVE Flatten(_)
Flatten(seqs) == IF seqs = <<>> THEN <<>> ELSE Head(seqs) \o Flatten(Tail(seqs))

\* a text: the lines of its pieces joined by newlines, with or without a
\* final newline
PieceTexts ==
    {JoinWith(<<NL>>, Flatten(ps)) \o last :
        ps \in SeqsUpTo(TablePieces, MaxPieces), last \in {<<>>, <<NL>>}}

InitPieces ==
    /\ pc = "extract_tables"
    /\ text \in PieceTexts
    /\ img_width = 0
    /\ img_height = 0
    /\ elements = <<>>
    /\ dimensions = <<>>
    /\ part_numbers = <<>>
    /\ tables = <<>>
    /\ metadata = NoMetadata
    /\ cleaned_text = None
    /\ NoRequests
    /\ grounding = TRUE

SpecPieces == InitPieces /\ [][NextTables]_vars

(***************************************************************************)
(* Claims about texts of several tables (SpecPieces)                       *)
(***************************************************************************)
\* a separator row as it is written: a pipe-delimited row of dashes, colons,
\* pipes and blanks with a dash in it
IsRuleRow(line) == IsSeparatorRow(line) /\ \E i \in 1..Len(line) : line[i] = "-"

\* a pipe-delimited row of cells
IsCellRow(line) == IsPipeRow(line) /\ ~IsRuleRow(line)

\* the lines at which a table starts: a row of cells, a separator row right
\* after it and a row of cells after that
TableStarts(lines) ==
    {h \in 1..(Len(lines) - 2) :
        IsCellRow(lines[h]) /\ IsRuleRow(lines[h + 1]) /\ IsCellRow(lines[h + 2])}

\* the last body line of the table that starts at line h: the rows of cells
\* go on to the first line that is none, and the row before a separator row
\* is the header of the next table
LastBodyLine(lines, h) ==
    LET e == Max({j \in (h + 2)..Len(lines) : \A i \in (h + 2)..j : IsCellRow(lines[i])})
    IN  IF e + 1 <= Len(lines) /\ IsRuleRow(lines[e + 1]) THEN e - 1 ELSE e

\* the text is made of well-formed tables and of lines outside of tables:
\* a line with a pipe is a pipe-delimited row, and a row of nothing but
\* separator characters is the separator row of a table or lies in a body
WellFormedTables(lines) ==
    /\ \A i \in 1..Len(lines) :
          (\E c \in 1..Len(lines[i]) : lines[i][c] = "|") => IsPipeRow(lines[i])
    /\ \A r \in 1..Len(lines) :
          IsSeparatorRow(lines[r]) =>
              \/ IsRuleRow(lines[r]) /\ r - 1 \in TableStarts(lines)
              \/ ~IsRuleRow(lines[r]) /\ \E h \in TableStarts(lines) :
                                            h + 2 <= r /\ r <= LastBodyLine(lines, h)
    /\ \A h \in TableStarts(lines) : LastBodyLine(lines, h) >= h + 2

\* the j-th table start
NthStart(lines, j) ==
    CHOOSE h \in TableStarts(lines) :
        Cardinality({x \in TableStarts(lines) : x < h}) = j - 1

\* the rows the table that starts at line h owns: the cells of its body lines
OwnRows(lines, h) ==
    SelectSeq([k \in 1..(LastBodyLine(lines, h) - h - 1) |-> Cells(lines[h + 1 + k])],
              NonEmpty)

\* every table of the result holds the header and the rows of its own block
EachTableHoldsItsOwn(lines) ==
    /\ Len(tables) = Cardinality(TableStarts(lines))
    /\ \A j \in 1..Len(tables) :
          /\ tables[j].headers = Cells(lines[NthStart(lines, j)])
          /\ [k \in 1..Len(tables[j].rows) |-> tables[j].rows[k].cells]
                = OwnRows(lines, NthStart(lines, j))

\* C11: when a text contains k well-formed tables, extract_tables returns k
\* tables in the order in which they occur in the text, each holding only its
\* own header and body rows: no row of one table is attributed to another.
C11_EveryTableInOrder ==
    pc = "done" /\ WellFormedTables(Lines(text)) => EachTableHoldsItsOwn(Lines(text))

\* no table starts on the line right after a pipe-delimited row
TablesApart(lines) ==
    \A h \in TableStarts(lines) : h > 1 => ~IsPipeRow(lines[h - 1])

\* C11, amended: when a text contains k well-formed tables, each of them
\* separated from the table before it by at least one line that is not a
\* pipe-delimited row, extract_tables returns k tables in the order of the
\* text, each holding only its own header and body rows.
C11_EveryTableApartInOrder ==
    pc = "done" /\ WellFormedTables(Lines(text)) /\ TablesApart(Lines(text))
        => EachTableHoldsItsOwn(Lines(text))

\* C11, witness: two tables with a line between them were extracted as two
C11_Witness ==
    /\ pc = "done"
    /\ WellFormedTables(Lines(text))
    /\ TablesApart(Lines(text))
    /\ Cardinality(TableStarts(Lines(text))) = 2
    /\ Len(tables) = 2
    /\ tables[1].headers # tables[2].headers

\* C12: in every table of extract_tables the k-th row of rows has the
\* row_number k, counting from 0: the row numbers are the contiguous positions
\* 0..n-1 within the emitted body, whatever lines the body contained.
C12_RowNumbersAreContiguous ==
    pc = "done" =>
        \A t \in 1..Len(tables) :
            \A k \in 1..Len(tables[t].rows) : tables[t].rows[k].row_number = k - 1

(***************************************************************************)
(* The metadata lookups on a text of lines                                 *)
(***************************************************************************)
\* the longest text, in lines
MaxMetadataLines == 2

MetadataLines == {<<"T", "i", "t", "l", "e", ":", " ", "B", "r", "a", "c", "k", "e", "t">>,
                  <<"t", "i", "t", "l", "e", ":", " ">>,
                  <<"D", "r", "a", "w", "i", "n", "g", " ", "N", "o", ".", " ", "A", "-", "1", "2">>,
                  <<"R", "e", "v", " ", "B">>,
                  <<"r", "e", "v", "i", "s", "i", "o", "n", ":", " ", "2">>,
                  <<"S", "c", "a", "l", "e", " ", "1", ":", "2">>,
                  <<"s", "c", "a", "l", "e", ":", " ", "1", "0", ":", "1">>,
                  <<"n", "o", "t", "e">>,
                  <<"D", "W", "G", "#", " ", "7">>,
                  <<"R", "e", "v", ".">>,
                  <<"T", "I", "T", "L", "E">>,
                  <<"s", "c", "a", "l", "e", " ", "5">>}

MetadataTexts ==
    {JoinWith(<<NL>>, ls) \o last :
        ls \in SeqsUpTo(MetadataLines, MaxMetadataLines), last \in {<<>>, <<NL>>}}

\* the lookups get the detected elements too: none, or a title element
MetadataElements ==
    {<<>>, <<DetectedElement(<<"T", "i", "t", "l", "e", ":", " ", "G", "e", "a", "r">>, "title", PositionBox(1))>>}

InitMetadata ==
    /\ pc = "extract_drawing_metadata"
    /\ text \in MetadataTexts
    /\ img_width = 0
    /\ img_height = 0
    /\ elements \in MetadataElements
    /\ dimensions = <<>>
    /\ part_numbers = <<>>
    /\ tables = <<>>
    /\ metadata = NoMetadata
    /\ cleaned_text = None
    /\ NoRequests
    /\ grounding = TRUE

ExtractDrawingMetadata ==
    /\ pc = "extract_drawing_metadata"
    /\ metadata' = extract_drawing_metadata(text, elements)
    /\ pc' = "done"
    /\ UNCHANGED <<text, img_width, img_height, elements, dimensions, part_numbers, tables, cleaned_text, grounding,
                   sessionVars, engineVars, batchVars>>

NextMetadata == ExtractDrawingMetadata

SpecMetadata == InitMetadata /\ [][NextMetadata]_vars

(***************************************************************************)
(* Claims about the metadata lookups (SpecMetadata)                        *)
(***************************************************************************)
MetadataFields == {"title", "number", "revision", "scale"}

\* C13: for every input text, each of the four fields of
\* extract_drawing_metadata (title, number, revision, scale) is either absent
\* (None) or a non-empty string; no field is ever the empty string.
C13_NoFieldIsEmptyString ==
    pc = "done" =>
        \A field \in MetadataFields : metadata[field] = None \/ metadata[field] # <<>>

\* the keywords of a pattern family, each with the dot it may take
FamilyKeywords(field) ==
    CASE field = "title" -> {<<"t", "i", "t", "l", "e">>, <<"d", "r", "a", "w", "i", "n", "g">>}
      [] field = "number" -> {<<"d", "r", "a", "w", "i", "n", "g">>, <<"d", "w", "g">>,
                              <<"n", "o">>, <<"n", "o", ".">>}
      [] field = "revision" -> {<<"r", "e", "v">>, <<"r", "e", "v", ".">>,
                                <<"r", "e", "v", "i", "s", "i", "o", "n">>}
      [] field = "scale" -> {<<"s", "c", "a", "l", "e">>}

\* what a family allows between the keyword and the value
FamilyGap(field) == IF field = "number" THEN {":", "#", " ", "\t", NL} ELSE {":", " ", "\t", NL}

\* a value of the family starts at position q of s
ValueStartsAt(field, s, q) ==
    /\ q <= Len(s)
    /\ CASE field = "title" -> s[q] # NL
         [] field = "number" -> s[q] \in TokenChars
         [] field = "revision" -> s[q] \in RevisionChars
         [] field = "scale" ->
                \E c \in (q + 1)..(Len(s) - 1) :
                    /\ \A d \in q..(c - 1) : s[d] \in Digits
                    /\ s[c] = ":"
                    /\ s[c + 1] \in Digits

\* the pattern family of a field matches somewhere in the text: a keyword in
\* any letter case, a gap of one or more characters, a value
FamilyMatches(field, s) ==
    LET low == Lower(s)
        after == UNION {{i + Len(kw) : i \in {i \in 1..Len(s) : OccursAt(low, kw, i)}} :
                           kw \in FamilyKeywords(field)}
    IN  \E j \in after :
            \E q \in (j + 1)..Len(s) :
                /\ \A g \in j..(q - 1) : s[g] \in FamilyGap(field)
                /\ ValueStartsAt(field, s, q)

RevisionOnly == <<"R", "e", "v", " ", "B">>

\* C14: each metadata field is set exactly when its own pattern family
\* matches the text and is absent otherwise, independently of the other
\* three: a text with a revision match and no title match yields revision set
\* and title absent, and the elements never influence any field.
C14_FieldSetIffOwnFamilyMatches ==
    pc = "done" =>
        /\ \A field \in MetadataFields :
              metadata[field] # None <=> FamilyMatches(field, text)
        /\ text = RevisionOnly => metadata.revision = <<"B">> /\ metadata.title = None
        /\ metadata = extract_drawing_metadata(text, <<>>)

\* C14, witness: a text with a revision and no title was looked up with a
\* title element in the list: the revision is set, the title absent
C14_Witness ==
    /\ pc = "done"
    /\ elements # <<>>
    /\ FamilyMatches("revision", text)
    /\ ~FamilyMatches("title", text)
    /\ metadata.revision # None
    /\ metadata.title = None

(***************************************************************************)
(* The JSON path: one call of parse_grounding_json                         *)
(***************************************************************************)
\* the longest grounding array
MaxItems == 3

\* the items of a grounding array: two objects with a box of four numbers,
\* an object without bbox_2d, an object whose box has an entry that is not a
\* number, and a number
GroundingItems ==
    <<<<"{", Quote, "b", "b", "o", "x", "_", "2", "d", Quote, ":", " ", "[", "1", "0", ",", " ", "2", "0", ",", " ", "3", "0", ",", " ", "4", "0", "]", ",", " ", Quote, "l", "a", "b", "e", "l", Quote, ":", " ", Quote, "b", "o", "l", "t", Quote, "}">>,
      <<"{", Quote, "b", "b", "o", "x", "_", "2", "d", Quote, ":", " ", "[", "5", ",", " ", "6", ",", " ", "7", "0", ",", " ", "8", "0", "]", ",", " ", Quote, "l", "a", "b", "e", "l", Quote, ":", " ", Quote, "t", "o", "p", " ", "v", "i", "e", "w", Quote, ",", " ", Quote, "s", "u", "b", "_", "l", "a", "b", "e", "l", Quote, ":", " ", Quote, "A", Quote, "}">>,
      <<"{", Quote, "l", "a", "b", "e", "l", Quote, ":", " ", Quote, "n", "o", "t", "e", Quote, "}">>,
      <<"{", Quote, "b", "b", "o", "x", "_", "2", "d", Quote, ":", " ", "[", "1", ",", " ", "2", ",", " ", "3", ",", " ", Quote, "q", Quote, "]", ",", " ", Quote, "l", "a", "b", "e", "l", Quote, ":", " ", Quote, "h", "o", "l", "e", Quote, "}">>,
      <<"7">>>>

ItemArrays == UNION {[1..n -> 1..Len(GroundingItems)] : n \in 1..MaxItems}

ArrayText(arr) ==
    <<"[">> \o JoinWith(<<",", " ">>, [k \in 1..Len(arr) |-> GroundingItems[arr[k]]])
            \o <<"]">>

\* a fenced block whose content is not JSON
BrokenFence == <<Backtick, Backtick, Backtick, "j", "s", "o", "n", NL, "[", "{", NL, Backtick, Backtick, Backtick, NL>>

\* the array in a fenced block, bare after a sentence, and bare after a
\* fenced block whose content is not JSON
GroundingForms == {"fenced", "bare", "bare after broken fence"}

GroundingText(form, arr) ==
    CASE form = "fenced" -> FenceOpen \o <<NL>> \o ArrayText(arr) \o FenceClose
      [] form = "bare" -> <<"F", "o", "u", "n", "d", ":", " ">> \o ArrayText(arr)
      [] form = "bare after broken fence" -> BrokenFence \o ArrayText(arr)

NoGroundingText == <<"n", "o", " ", "b", "o", "x", "e", "s", " ", "f", "o", "u", "n", "d">>

GroundingTexts ==
    {GroundingText(form, arr) : form \in GroundingForms, arr \in ItemArrays}
        \cup {NoGroundingText}

GroundingSizes == {<<640, 480>>, <<1000, 2000>>}

InitJson ==
    /\ pc = "parse_grounding_json"
    /\ text \in GroundingTexts
    /\ \E size \in GroundingSizes : img_width = size[1] /\ img_height = size[2]
    /\ elements = <<>>
    /\ dimensions = <<>>
    /\ part_numbers = <<>>
    /\ tables = <<>>
    /\ metadata = NoMetadata
    /\ cleaned_text = None
    /\ NoRequests
    /\ grounding = TRUE

\* detected_elements = self.parse_grounding_json(output_text, img_width, img_height)
ParseGroundingJson ==
    /\ pc = "parse_grounding_json"
    /\ LET r == parse_grounding_json(text, img_width, img_height)
       IN  /\ elements' = r.elements
           /\ pc' = IF r.raised THEN "raised" ELSE "done"
    /\ UNCHANGED <<text, img_width, img_height, dimensions, part_numbers, tables, metadata, cleaned_text, grounding,
                   sessionVars, engineVars, batchVars>>

NextJson == ParseGroundingJson

SpecJson == InitJson /\ [][NextJson]_vars

(***************************************************************************)
(* Claims about the JSON path (SpecJson)                                   *)
(***************************************************************************)
\* the calls: the form and the array behind each text
GroundingCalls ==
    {[form |-> form, arr |-> arr, text |-> GroundingText(form, arr)] :
        form \in GroundingForms, arr \in ItemArrays}

\* the items that are objects with a box of four numbers
WellFormedItems == {1, 2}

\* the items whose handling fails: a box with an entry that is not a number,
\* an item that is not an object
FailingItems == {4, 5}

PixelBox(x1, y1, x2, y2) == BoundingBox(Rat(x1, 1), Rat(y1, 1), Rat(x2, 1), Rat(y2, 1))

\* the DetectedElement of a well-formed item
ItemElement(i) ==
    IF i = 1 THEN DetectedElement(<<"b", "o", "l", "t">>, "text", PixelBox(10, 20, 30, 40))
    ELSE DetectedElement(<<"t", "o", "p", " ", "v", "i", "e", "w", " ", "A">>, "view", PixelBox(5, 6, 70, 80))

\* one DetectedElement for every well-formed object of the array, in order
ElementsOfWellFormed(arr) ==
    LET sel == SelectSeq(arr, LAMBDA i : i \in WellFormedItems)
    IN  [k \in 1..Len(sel) |-> ItemElement(sel[k])]

Malformed(arr) == {k \in 1..Len(arr) : arr[k] \notin WellFormedItems}

\* C15: parse_grounding_json isolates per-item failures: for a JSON array of
\* well-formed objects and one malformed item (no bbox_2d, a bbox_2d without
\* four numeric entries, or an item that is not an object) at any position,
\* the result holds exactly one DetectedElement for every well-formed object,
\* those after the malformed item included.
C15_MalformedItemIsIsolated ==
    pc = "done" =>
        \A c \in GroundingCalls :
            (/\ text = c.text
             /\ c.form \in {"fenced", "bare"}
             /\ Cardinality(Malformed(c.arr)) = 1)
                => elements = ElementsOfWellFormed(c.arr)

HasShapeError(c) ==
    \/ c.form = "bare after broken fence"
    \/ \E k \in 1..Len(c.arr) : c.arr[k] \in FailingItems

\* C16: when parse_grounding_json hits a JSON-shape error (unparseable JSON,
\* wrong shape, bad bbox_2d) it returns an empty detection list for that call
\* and no exception reaches the caller.
C16_ShapeErrorGivesEmptyList ==
    /\ pc # "raised"
    /\ pc = "done" =>
           \A c \in GroundingCalls :
               (text = c.text /\ HasShapeError(c)) => elements = <<>>

\* the bare pattern finds an array that begins and ends with an object
BareArrayIsFound(arr) == arr[1] # 5 /\ arr[Len(arr)] # 5

\* elems are elements of well-formed objects of the array, in their order
FromWellFormedInOrder(elems, arr) ==
    /\ Len(elems) <= Len(arr)
    /\ \E f \in IncreasingMaps(Len(elems), Len(arr)) :
           \A k \in 1..Len(elems) :
               arr[f[k]] \in WellFormedItems /\ elems[k] = ItemElement(arr[f[k]])

\* C16, amended: when parse_grounding_json hits a JSON-shape error no
\* exception reaches the caller and the returned list holds no element for
\* the failing item: it holds only elements of well-formed objects of the
\* array, in their order, and it is empty when the JSON text cannot be found
\* or parsed.
C16_ShapeErrorGivesNoElementOfItsOwn ==
    /\ pc # "raised"
    /\ pc = "done" =>
           \A c \in GroundingCalls :
               (text = c.text /\ HasShapeError(c)) =>
                   IF \/ c.form = "bare after broken fence"
                      \/ c.form = "bare" /\ ~BareArrayIsFound(c.arr)
                   THEN elements = <<>>
                   ELSE FromWellFormedInOrder(elements, c.arr)

\* C16, witness: an array of a well-formed object, an object whose box has an
\* entry that is not a number and a second well-formed object gave the first
\* element only
C16_Witness ==
    /\ pc = "done"
    /\ text = GroundingText("fenced", <<1, 4, 2>>)
    /\ elements = <<ItemElement(1)>>

\* C18: the fenced block and the bare array are alternatives and the first
\* one that parses wins: of a text with a fenced block whose content is not
\* valid JSON and a valid bare array of objects, the elements of the bare
\* array are returned.
C18_BareArrayAfterBrokenFence ==
    pc = "done" =>
        \A c \in GroundingCalls :
            (/\ text = c.text
             /\ c.form = "bare after broken fence"
             /\ Malformed(c.arr) = {})
                => elements = ElementsOfWellFormed(c.arr)

(***************************************************************************)
(* Both scanners: a call of parse_detections or of parse_grounding_json    *)
(***************************************************************************)
InitScanners == Init \/ InitJson

NextScanners == ParseDetections \/ ParseGroundingJson

SpecScanners == InitScanners /\ [][NextScanners]_vars

(***************************************************************************)
(* Claims about both scanners (SpecScanners)                               *)
(***************************************************************************)
\* a coordinate of the tag grammar rescaled once to an axis of the image
RescaledOnce(coord, extent) == Rat(ToInt(coord) * extent, CoordScale)

\* C17: for every object with bbox_2d = [x1, y1, x2, y2] that
\* parse_grounding_json accepts, the BoundingBox it emits has exactly those
\* four values for every image width and height: the JSON path never rescales
\* coordinates, while the tag path rescales each coordinate exactly once.
C17_JsonBoxesVerbatimTagBoxesRescaledOnce ==
    pc = "done" =>
        /\ \A c \in GroundingCalls :
               text = c.text =>
                   /\ FromWellFormedInOrder(elements, c.arr)
                   /\ (c.form = "fenced" /\ Malformed(c.arr) = {})
                          => elements = ElementsOfWellFormed(c.arr)
        /\ text \in TagTexts =>
               \A k \in 1..Len(elements) :
                   LET coords == FindTags(text, 1)[k].coords
                   IN  elements[k].bbox =
                           BoundingBox(RescaledOnce(coords[1], img_width),
                                       RescaledOnce(coords[2], img_height),
                                       RescaledOnce(coords[3], img_width),
                                       RescaledOnce(coords[4], img_height))

\* C17, witness: the box [5, 6, 70, 80] left the JSON path as it stood for an
\* image of 640 by 480
C17_Witness ==
    /\ pc = "done"
    /\ img_width = 640
    /\ img_height = 480
    /\ text = GroundingText("fenced", <<2>>)
    /\ Len(elements) = 1
    /\ elements[1].bbox = PixelBox(5, 6, 70, 80)

(***************************************************************************)
(* Claims about the tag path and the JSON-path classifier (Spec)           *)
(***************************************************************************)
\* C19: the JSON-path classifier _classify_element_type is the tag-path
\* classifier _classify_element with one extra first-priority view rule: for
\* every label without view vocabulary (view, section, detail, isometric,
\* perspective) both classifiers return the same element_type.
C19_ClassifiersAgreeWithoutViewWords ==
    pc = "done" =>
        \A k \in 1..Len(elements) :
            ~AnyIn(ViewWords, Lower(elements[k].label))
                => classify_element_type(elements[k].label) = elements[k].element_type

\* the texts of one well-formed occurrence between two surroundings
SceneCalls ==
    {[pre |-> pre, occurrence |-> Tag(l, c, sep), post |-> post,
      text |-> pre \o Tag(l, c, sep) \o post] :
        l \in SceneLabels, c \in CoordTuples, sep \in CoordSeparators,
        pre \in Surroundings, post \in Surroundings}

\* the one surrounding that is a well-formed occurrence
QtyOccurrence ==
    Tag(<<"q", "t", "y">>, <<<<"1", "0">>, <<"2", "0">>, <<"3", "0">>, <<"4", "0">>>>, <<",">>)

\* a surrounding without what is not a well-formed occurrence
WellFormedOnly(surrounding) ==
    IF surrounding = QtyOccurrence THEN surrounding ELSE <<>>

\* C20: parse_detections returns exactly one element per well-formed tag
\* occurrence, in text order: a malformed occurrence (missing coordinate,
\* non-numeric coordinate, unterminated tag, reference with no detection
\* part) anywhere in the text produces no element and changes neither the
\* number nor the label and bbox of the elements of the well-formed
\* occurrences; text with no tag produces no element.
C20_MalformedOccurrencesChangeNothing ==
    pc = "done" =>
        \A c \in SceneCalls :
            text = c.text =>
                LET wellFormed == WellFormedOnly(c.pre) \o c.occurrence
                                      \o WellFormedOnly(c.post)
                    alone == parse_detections(wellFormed, img_width, img_height)
                IN  /\ Len(alone) = 1 + Cardinality({c.pre} \cap {QtyOccurrence})
                                      + Cardinality({c.post} \cap {QtyOccurrence})
                    /\ Len(elements) = Len(alone)
                    /\ \A k \in 1..Len(alone) :
                           /\ elements[k].label = alone[k].label
                           /\ elements[k].bbox = alone[k].bbox

\* C21: the label of every element of parse_detections is the span between
\* one reference-open marker and the first reference-close marker after it:
\* no emitted label contains the reference-close marker <|/ref|> or a further
\* reference-open marker.
C21_LabelHoldsNoReferenceMarker ==
    pc = "done" =>
        \A k \in 1..Len(elements) :
            \A p \in 1..Len(elements[k].label) :
                elements[k].label[p] \notin {REF, ENDREF}

(***************************************************************************)
(* Further claims about both scanners (SpecScanners)                       *)
(***************************************************************************)
\* a <= b for two fractions with positive denominators
AtMost(a, b) == a.num * b.den <= b.num * a.den

\* C22: every BoundingBox that leaves either scanner (parse_detections or
\* parse_grounding_json) satisfies x1 <= x2 and y1 <= y2, for every input text
\* and image size.
C22_BoxCornersAreOrdered ==
    pc = "done" =>
        \A k \in 1..Len(elements) :
            /\ AtMost(elements[k].bbox.x1, elements[k].bbox.x2)
            /\ AtMost(elements[k].bbox.y1, elements[k].bbox.y2)

(***************************************************************************)
(* _strip_reasoning (src/backend/qwen_vision_service.py)                   *)
(***************************************************************************)
RECURSIVE SplitOn(_, _)
\* s.split(sep)
SplitOn(s, sep) ==
    LET at == {i \in 1..Len(s) : OccursAt(s, sep, i)}
    IN  IF at = {} THEN <<s>>
        ELSE <<SubSeq(s, 1, Min(at) - 1)>>
                 \o SplitOn(SubSeq(s, Min(at) + Len(sep), Len(s)), sep)

\* line.strip().startswith('##') or line.strip().startswith('**')
IsHeaderLine(line) ==
    \/ OccursAt(Strip(line), <<"#", "#">>, 1)
    \/ OccursAt(Strip(line), <<"*", "*">>, 1)

\* re.match(r'^\d+\.', line.strip())
IsNumberedLine(line) ==
    /\ SkipWhile(Strip(line), 1, Digits) > 1
    /\ CharAt(Strip(line), SkipWhile(Strip(line), 1, Digits)) = "."

\* line.strip().startswith('- ')
IsBulletLine(line) == OccursAt(Strip(line), <<"-", " ">>, 1)

\* the index that numbered and bullet lines must exceed
ListAfterIndex == 5

\* the loop of strategy 1 breaks at line i (counted from 0)
IsAnswerStart(lines, i) ==
    \/ IsHeaderLine(lines[i + 1])
    \/ IsNumberedLine(lines[i + 1]) /\ i > ListAfterIndex
    \/ IsBulletLine(lines[i + 1]) /\ i > ListAfterIndex

\* answer_start after the loop: -1 when no line breaks it
answer_start_of(lines) ==
    LET starts == {i \in 0..(Len(lines) - 1) : IsAnswerStart(lines, i)}
    IN  IF starts = {} THEN -1 ELSE Min(starts)

reasoning_indicators ==
    {<<"G", "o", "t", " ", "i", "t", ",", " ", "l", "e", "t", "'", "s">>,
     <<"L", "e", "t", " ", "m", "e", " ", "c", "h", "e", "c", "k">>,
     <<"L", "e", "t", " ", "m", "e", " ", "l", "o", "o", "k">>,
     <<"F", "i", "r", "s", "t", ",", " ", "c", "h", "e", "c", "k">>,
     <<"L", "o", "o", "k", "i", "n", "g", " ", "a", "t">>,
     <<"W", "a", "i", "t", ",">>,
     <<"T", "h", "e", " ", "u", "s", "e", "r", " ", "w", "a", "n", "t", "s">>,
     <<"T", "h", "e", " ", "q", "u", "e", "s", "t", "i", "o", "n", " ", "i", "s">>}

\* any(indicator in line for indicator in reasoning_indicators)
HasIndicator(line) == \E indicator \in reasoning_indicators : Contains(line, indicator)

\* last_reasoning_idx after the loop: -1 when no line has an indicator
last_reasoning_idx_of(lines) ==
    LET found == {i \in 0..(Len(lines) - 1) : HasIndicator(lines[i + 1])}
    IN  IF found = {} THEN -1 ELSE Max(found)

\* '\n'.join(lines[i:]).strip()
FromLine(lines, i) == Strip(JoinWith(<<NL>>, SubSeq(lines, i + 1, Len(lines))))

\* the length over which strategy 3 takes a text for reasoning
LongTextLength == 500

\* strategy 3 with the first two paragraphs for the last two
last_paragraphs_from_the_front(txt, paragraphs) ==
    IF Len(paragraphs) > 2
    THEN Strip(JoinWith(<<NL, NL>>, SubSeq(paragraphs, 1, 2)))
    ELSE txt

\* '\n\n'.join(paragraphs[-2:]).strip() of more than two paragraphs
last_paragraphs(txt, paragraphs) ==
    IF Len(paragraphs) > 2
    THEN Strip(JoinWith(<<NL, NL>>, SubSeq(paragraphs, Len(paragraphs) - 1, Len(paragraphs))))
    ELSE txt

strategy_3(txt) ==
    IF Len(txt) > LongTextLength THEN last_paragraphs(txt, SplitOn(txt, <<NL, NL>>))
    ELSE txt

\* strategy 2: the first line after the last reasoning line that is not
\* blank and has no indicator
strategy_2(txt, lines, last_reasoning_idx) ==
    LET answers == {i \in (last_reasoning_idx + 1)..(Len(lines) - 1) :
                       /\ Strip(lines[i + 1]) # <<>>
                       /\ ~HasIndicator(Strip(lines[i + 1]))}
    IN  IF /\ last_reasoning_idx > 0
           /\ last_reasoning_idx < Len(lines) - 3
           /\ answers # {}
        THEN FromLine(lines, Min(answers))
        ELSE strategy_3(txt)

strategy_1(txt, lines, answer_start) ==
    IF answer_start > 0 THEN FromLine(lines, answer_start)
    ELSE strategy_2(txt, lines, last_reasoning_idx_of(lines))

strip_reasoning(txt) ==
    IF txt = <<>> THEN txt
    ELSE strategy_1(txt, Split(txt, NL), answer_start_of(Split(txt, NL)))

(***************************************************************************)
(* The reasoning stripper: one call of _strip_reasoning                    *)
(***************************************************************************)
\* the most lines of thought before the lines of interest
MaxLeadLines == 6

\* the most lines of interest
MaxBodyLines == 2

\* the length of a paragraph of a long text
ParagraphLength == 260

\* the lines of interest: a header, a numbered item, a bullet, a line with a
\* reasoning indicator, a plain line between blanks, an empty line
HeaderLine == <<"#", "#", " ", "A", "n", "s", "w", "e", "r">>

NumberedLine == <<"1", ".", " ", "b", "o", "l", "t">>

BulletLine == <<"-", " ", "n", "u", "t">>

ReasoningLine == <<"W", "a", "i", "t", ",", " ", "n", "o">>

PlainLine == <<" ", "o", "k", " ">>

StripLines == {HeaderLine, NumberedLine, BulletLine, ReasoningLine, PlainLine, <<>>}

LeadLine == <<"h", "m">>

TrailLine == <<"e", "n", "d">>

TrailCounts == 0..3

\* lead lines of thought, then the lines of interest, then closing lines
ShortText(lead, body, trail) ==
    JoinWith(<<NL>>, [k \in 1..lead |-> LeadLine] \o body \o [k \in 1..trail |-> TrailLine])

StripBodies == SeqsUpTo(StripLines, MaxBodyLines) \ {<<>>}

Paragraph == [k \in 1..ParagraphLength |-> "x"]

\* two or three paragraphs after nothing, a header line or a reasoning line
LongText(first, n) == first \o JoinWith(<<NL, NL>>, [k \in 1..n |-> Paragraph])

LongTexts ==
    {LongText(first, n) :
        first \in {<<>>, HeaderLine \o <<NL>>, ReasoningLine \o <<NL>>}, n \in 2..3}

StripTexts ==
    {ShortText(lead, body, trail) :
        lead \in 0..MaxLeadLines, body \in StripBodies, trail \in TrailCounts}
        \cup LongTexts \cup {<<>>}

InitStrip ==
    /\ pc = "strip_reasoning"
    /\ text \in StripTexts
    /\ img_width = 640
    /\ img_height = 480
    /\ elements = <<>>
    /\ dimensions = <<>>
    /\ part_numbers = <<>>
    /\ tables = <<>>
    /\ metadata = NoMetadata
    /\ cleaned_text = None
    /\ NoRequests
    /\ grounding = TRUE

\* cleaned_text = self._strip_reasoning(output_text)
StripReasoning ==
    /\ pc = "strip_reasoning"
    /\ cleaned_text' = strip_reasoning(text)
    /\ pc' = "done"
    /\ UNCHANGED <<text, img_width, img_height, elements, dimensions, part_numbers, tables, metadata, grounding,
                   sessionVars, engineVars, batchVars>>

NextStrip == StripReasoning

SpecStrip == InitStrip /\ [][NextStrip]_vars

(***************************************************************************)
(* Claims about the reasoning stripper (SpecStrip)                         *)
(***************************************************************************)
\* C23: strategy (a): when some line is a structured-answer marker (a line
\* starting with ## or **, or a numbered-list or bullet line at index > 5),
\* the result is the text from the first such line to the end,
\* whitespace-trimmed, for every position of that line, the first line of the
\* text included (then the whole text is returned), whatever strategies (b)
\* and (c) would do.
C23_ResultStartsAtFirstMarkerLine ==
    (pc = "done" /\ text # <<>>) =>
        LET lines == Split(text, NL)
            first == answer_start_of(lines)
        IN  first >= 0 =>
                \/ cleaned_text = FromLine(lines, first)
                \/ first = 0 /\ cleaned_text = text

\* the lines after line i (counted from 0) that are not blank and hold no
\* reasoning-opener phrase
AnswerLinesAfter(lines, i) ==
    {a \in (i + 1)..(Len(lines) - 1) :
        Strip(lines[a + 1]) # <<>> /\ ~HasIndicator(lines[a + 1])}

\* C24: strategy (b): when no line is a structured-answer marker and some
\* line holds a reasoning-opener phrase and a non-empty line without such a
\* phrase follows, the result starts at the first non-empty non-reasoning
\* line after the last reasoning line, for every position of the reasoning
\* line, the first line of the text and lines near the end included.
C24_ResultStartsAfterLastReasoningLine ==
    (pc = "done" /\ text # <<>>) =>
        LET lines == Split(text, NL)
            last == last_reasoning_idx_of(lines)
        IN  (/\ answer_start_of(lines) = -1
             /\ last >= 0
             /\ AnswerLinesAfter(lines, last) # {})
                => cleaned_text = FromLine(lines, Min(AnswerLinesAfter(lines, last)))

\* the whitespace-trimmed suffixes of a text
IsTrimmedSuffix(result, txt) ==
    \E i \in 1..(Len(txt) + 1) : result = Strip(SubSeq(txt, i, Len(txt)))

\* no strategy applies: no marker line, no reasoning-opener phrase, no more
\* than 500 characters
NoStrategyApplies(txt) ==
    /\ answer_start_of(Split(txt, NL)) = -1
    /\ ~HasIndicator(txt)
    /\ Len(txt) <= LongTextLength

\* C30: for every input text the result of _strip_reasoning is either the
\* input unchanged or a whitespace-trimmed suffix of the input: the stripper
\* only drops a leading part and never inserts, reorders or rewrites text;
\* when no strategy applies the input is returned unmodified.
C30_ResultIsInputOrTrimmedSuffix ==
    pc = "done" =>
        /\ cleaned_text = text \/ IsTrimmedSuffix(cleaned_text, text)
        /\ NoStrategyApplies(text) => cleaned_text = text

\* C30, witness: of a long text of three paragraphs after a reasoning line
\* the last two paragraphs were returned
C30_Witness ==
    /\ pc = "done"
    /\ text = LongText(ReasoningLine \o <<NL>>, 3)
    /\ cleaned_text = LongText(<<>>, 2)

(***************************************************************************)
(* QwenVisionService.process_technical_drawing from the model output on    *)
(***************************************************************************)
\* the detections parsed from the stripped text
detected_elements_from_cleaned_text(output_text, cleaned, with_grounding, width, height) ==
    IF with_grounding THEN parse_grounding_json(cleaned, width, height)
    ELSE Returned(<<>>)

\* detected_elements = [], and with grounding
\* self.parse_grounding_json(output_text, img_width, img_height)
detected_elements_of(output_text, cleaned, with_grounding, width, height) ==
    IF with_grounding THEN parse_grounding_json(output_text, width, height)
    ELSE Returned(<<>>)

\* the grounding arrays of the model outputs: one or two items
DrawingArrays == {arr \in ItemArrays : Len(arr) <= 2}

\* what the model writes before the JSON: nothing, or lines of thought
Thoughts == {<<>>, <<"h", "m", NL, "W", "a", "i", "t", ",", " ", "n", "o", NL>>}

\* what the model writes after the JSON: nothing, an answer under a header,
\* or closing lines
Answers == {<<>>, <<NL, "#", "#", " ", "A", "n", "s", "w", "e", "r", NL, " ", "o", "k", " ">>, <<NL, "e", "n", "d", NL, "e", "n", "d", NL, "e", "n", "d">>}

DrawingForms == {"fenced", "bare"}

DrawingOutput(thought, form, arr, answer) ==
    thought \o GroundingText(form, arr) \o answer

DrawingOutputs ==
    {DrawingOutput(thought, form, arr, answer) :
        thought \in Thoughts, form \in DrawingForms, arr \in DrawingArrays,
        answer \in Answers}

InitDrawing ==
    /\ pc = "process_technical_drawing"
    /\ text \in DrawingOutputs
    /\ \E size \in GroundingSizes : img_width = size[1] /\ img_height = size[2]
    /\ elements = <<>>
    /\ dimensions = <<>>
    /\ part_numbers = <<>>
    /\ tables = <<>>
    /\ metadata = NoMetadata
    /\ cleaned_text = None
    /\ NoRequests
    /\ grounding \in BOOLEAN

\* the part of process_technical_drawing after the generation: the stripped
\* text, the detections, the response
QwenProcessTechnicalDrawing ==
    /\ pc = "process_technical_drawing"
    /\ cleaned_text' = strip_reasoning(text)
    /\ LET r == detected_elements_of(text, strip_reasoning(text), grounding,
                                     img_width, img_height)
       IN  /\ elements' = r.elements
           /\ pc' = IF r.raised THEN "raised" ELSE "done"
    /\ UNCHANGED <<text, img_width, img_height, dimensions, part_numbers, tables, metadata, grounding,
                   sessionVars, engineVars, batchVars>>

NextDrawing == QwenProcessTechnicalDrawing

SpecDrawing == InitDrawing /\ [][NextDrawing]_vars

(***************************************************************************)
(* Claims about process_technical_drawing (SpecDrawing)                    *)
(***************************************************************************)
\* the calls: the parts of each model output
DrawingCalls ==
    {[json |-> GroundingText(form, arr),
      text |-> DrawingOutput(thought, form, arr, answer)] :
        thought \in Thoughts, form \in DrawingForms, arr \in DrawingArrays,
        answer \in Answers}

\* C27: in QwenVisionService.process_technical_drawing the structured
\* detections are decoupled from the reasoning stripper: detected_elements
\* equals parse_grounding_json applied to the raw model output, so two runs
\* with the same raw output yield the same detected_elements whatever
\* _strip_reasoning returns; only the text and markdown fields carry the
\* stripped text.
C27_DetectionsAreThoseOfTheRawOutput ==
    pc = "done" =>
        \A c \in DrawingCalls :
            text = c.text =>
                elements = parse_grounding_json(c.json, img_width, img_height).elements

\* C27, amended: the structured detections are decoupled from the reasoning
\* stripper: when grounding is requested detected_elements equals
\* parse_grounding_json applied to the raw model output, and without
\* grounding it is empty, so two runs with the same raw output and the same
\* grounding flag yield the same detected_elements whatever _strip_reasoning
\* returns; only the text and markdown fields carry the stripped text.
C27_DetectionsAreThoseOfTheRawOutputUnderGrounding ==
    pc = "done" =>
        \A c \in DrawingCalls :
            text = c.text =>
                elements =
                    IF grounding
                    THEN parse_grounding_json(c.json, img_width, img_height).elements
                    ELSE <<>>

\* C27, witness: the stripper cut the JSON off the text and the detections
\* of the raw output were returned
C27_Witness ==
    /\ pc = "done"
    /\ grounding
    /\ text = DrawingOutput(<<>>, "fenced", <<1, 2>>, <<NL, "#", "#", " ", "A", "n", "s", "w", "e", "r", NL, " ", "o", "k", " ">>)
    /\ cleaned_text = <<"#", "#", " ", "A", "n", "s", "w", "e", "r", NL, " ", "o", "k">>
    /\ elements = <<ItemElement(1), ItemElement(2)>>


(***************************************************************************)
(* The seven text functions, each on its own inputs                        *)
(***************************************************************************)
\* a coordinate of FloatMaxExponent + 5 digits: \d+ of the tag pattern takes
\* a run of digits of any length
HugeCoordinate == [i \in 1..(FloatMaxExponent + 5) |-> "9"]

\* well-formed occurrences with one coordinate out of the range of a float
HugeTagTexts ==
    {Tag(<<"a", "b", "c">>, <<HugeCoordinate, <<"0">>, <<"1">>, <<"1">>>>, sep) :
        sep \in CoordSeparators}
    \cup {Tag(<<"a", "b", "c">>, <<<<"0">>, <<"0">>, <<"1">>, HugeCoordinate>>, sep) :
        sep \in CoordSeparators}

InitHugeTag ==
    /\ pc = "parse_detections"
    /\ text \in HugeTagTexts
    /\ \E size \in ImageSizes : img_width = size[1] /\ img_height = size[2]
    /\ elements = <<>>
    /\ dimensions = <<>>
    /\ part_numbers = <<>>
    /\ tables = <<>>
    /\ metadata = NoMetadata
    /\ cleaned_text = None
    /\ NoRequests
    /\ grounding = TRUE

InitFunctions ==
    \/ Init
    \/ InitHugeTag
    \/ InitExtract
    \/ InitTables
    \/ InitMetadata
    \/ InitJson
    \/ InitStrip

NextFunctions ==
    \/ ParseDetections
    \/ ExtractDimensions
    \/ ExtractPartNumbers
    \/ ExtractTables
    \/ ExtractDrawingMetadata
    \/ ParseGroundingJson
    \/ StripReasoning

SpecFunctions == InitFunctions /\ [][NextFunctions]_vars

\* C25: for every input string and every positive image size, each of
\* parse_detections, extract_tables, extract_dimensions,
\* extract_part_numbers, extract_drawing_metadata, parse_grounding_json and
\* _strip_reasoning returns a result: no call ends with an error leaving
\* the function.
C25_NoFunctionRaises == pc # "raised"

(***************************************************************************)
(* main.py: the sessions of upload_image, chat_with_image, delete_session  *)
(* Session ids are numbers standing for the strings of uuid.uuid4(), which *)
(* returns a value it has not returned before.                             *)
(***************************************************************************)
SESSION_EXPIRY_HOURS == 24

\* the session ids of requests and of uuid4
MaxSessions == 2

\* the requests of one run
MaxRequests == 3

\* the hours the clock runs, and the hours between two readings
MaxClock == 36
ClockStep == 12

SessionIds == 1..MaxSessions

\* the dict sessions without the keys ids
Without(sessions, ids) == [sid \in DOMAIN sessions \ ids |-> sessions[sid]]

\* the dict sessions with uploaded_at stored under session_id
With(sessions, session_id, uploaded_at) ==
    [sid \in DOMAIN sessions \cup {session_id} |->
        IF sid = session_id THEN uploaded_at ELSE sessions[sid]]

\* the list expired of cleanup_expired_sessions
expired(sessions, t) ==
    {sid \in DOMAIN sessions : t - sessions[sid] > SESSION_EXPIRY_HOURS}

\* the sessions after image_sessions[session_id]
image_sessions_get(sessions, session_id) == sessions

\* the sessions after image_sessions.pop(session_id)
image_sessions_pop(sessions, session_id) == Without(sessions, {session_id})

\* one request with the status of its answer; a chat that reached the
\* engine is "in flight" until the engine returns
Answer(request, session_id, status) ==
    [request |-> request, session_id |-> session_id, status |-> status]

InitSessions ==
    /\ pc = "serving"
    /\ text = <<>>
    /\ img_width = 1
    /\ img_height = 1
    /\ elements = <<>>
    /\ dimensions = <<>>
    /\ part_numbers = <<>>
    /\ tables = <<>>
    /\ metadata = NoMetadata
    /\ cleaned_text = None
    /\ NoRequests
    /\ grounding = TRUE

\* upload_image: cleanup_expired_sessions, then 400 for a content type
\* that is neither image nor PDF, else a new session id; saving and
\* converting either store the session or remove its directory and answer
\* 500
UploadImage ==
    /\ pc = "serving"
    /\ Len(answered) < MaxRequests
    /\ \E accepted \in BOOLEAN, saved \in BOOLEAN :
        LET gone == expired(image_sessions, now)
            kept == Without(image_sessions, gone)
        IN  IF ~accepted
            THEN /\ image_sessions' = kept
                 /\ session_files' = session_files \ gone
                 /\ issued' = issued
                 /\ answered' = Append(answered, Answer("upload", 0, "400"))
            ELSE \E session_id \in SessionIds \ issued :
                    /\ issued' = issued \cup {session_id}
                    /\ IF saved
                       THEN /\ image_sessions' = With(kept, session_id, now)
                            /\ session_files' = (session_files \ gone) \cup {session_id}
                            /\ answered' = Append(answered, Answer("upload", session_id, "200"))
                       ELSE /\ image_sessions' = kept
                            /\ session_files' = session_files \ gone
                            /\ answered' = Append(answered, Answer("upload", session_id, "500"))
    /\ UNCHANGED <<pc, callVars, now, engineVars, batchVars>>

\* chat_with_image up to the call of the service: 404 for an id that is
\* not in image_sessions or whose image file is gone
ChatWithImage ==
    /\ pc = "serving"
    /\ Len(answered) < MaxRequests
    /\ \E session_id \in SessionIds :
        answered' = Append(answered, Answer("chat", session_id,
            IF session_id \notin DOMAIN image_sessions THEN "404"
            ELSE IF session_id \notin session_files THEN "404"
            ELSE "in flight"))
    /\ UNCHANGED <<pc, callVars, image_sessions, session_files, issued, now,
                   engineVars, batchVars>>

\* chat_with_image after the service has returned or raised
ChatAnswered ==
    /\ pc = "serving"
    /\ \E k \in 1..Len(answered), status \in {"200", "500"} :
        /\ answered[k].status = "in flight"
        /\ answered' = [answered EXCEPT ![k].status = status]
    /\ UNCHANGED <<pc, callVars, image_sessions, session_files, issued, now,
                   engineVars, batchVars>>

\* delete_session: 404 for an id that is not in image_sessions, else the
\* session is popped and its directory removed; rmtree may raise
DeleteSession ==
    /\ pc = "serving"
    /\ Len(answered) < MaxRequests
    /\ \E session_id \in SessionIds, removed \in BOOLEAN :
        IF session_id \notin DOMAIN image_sessions
        THEN /\ answered' = Append(answered, Answer("delete", session_id, "404"))
             /\ UNCHANGED <<image_sessions, session_files>>
        ELSE /\ image_sessions' = image_sessions_pop(image_sessions, session_id)
             /\ IF removed
                THEN /\ session_files' = session_files \ {session_id}
                     /\ answered' = Append(answered, Answer("delete", session_id, "200"))
                ELSE /\ session_files' = session_files
                     /\ answered' = Append(answered, Answer("delete", session_id, "500"))
    /\ UNCHANGED <<pc, callVars, issued, now, engineVars, batchVars>>

\* the clock of datetime.now() advances
HoursPass ==
    /\ pc = "serving"
    /\ now + ClockStep <= MaxClock
    /\ now' = now + ClockStep
    /\ UNCHANGED <<pc, callVars, image_sessions, session_files, issued, answered,
                   engineVars, batchVars>>

\* the system empties its temporary directory
ImageFileRemoved ==
    /\ pc = "serving"
    /\ \E session_id \in session_files :
        session_files' = session_files \ {session_id}
    /\ UNCHANGED <<pc, callVars, image_sessions, issued, now, answered,
                   engineVars, batchVars>>

NextSessions ==
    \/ UploadImage
    \/ ChatWithImage
    \/ ChatAnswered
    \/ DeleteSession
    \/ HoursPass
    \/ ImageFileRemoved

SpecSessions == InitSessions /\ [][NextSessions]_vars

(***************************************************************************)
(* Claims about the sessions (SpecSessions)                                *)
(***************************************************************************)
\* after a delete of s answered 200, every later chat or delete of s is
\* answered 404
LaterRequestsAnswer404 ==
    \A i, j \in 1..Len(answered) :
        (/\ i < j
         /\ answered[i] = Answer("delete", answered[i].session_id, "200")
         /\ answered[j].request \in {"chat", "delete"}
         /\ answered[j].session_id = answered[i].session_id)
        => answered[j].status = "404"

\* the step of one arriving request, a its entry in answered
RequestStep(a) ==
    /\ (a.request \in {"chat", "delete"} /\ a.session_id \notin DOMAIN image_sessions)
        => (a.status = "404" /\ image_sessions' = image_sessions)
    /\ (a.request = "delete" /\ a.status = "200")
        => a.session_id \notin DOMAIN image_sessions'
    /\ (a.request = "upload" /\ a.status # "200")
        => DOMAIN image_sessions' \subseteq DOMAIN image_sessions

\* C26: a session id is usable only between its upload and its deletion:
\* a chat or delete request with an id that is not in image_sessions is
\* answered 404 and leaves image_sessions as it was; a delete answered 200
\* removes the id, and every later chat or delete of that id is answered
\* 404; an upload that fails adds no session.
C26_SessionUsableBetweenUploadAndDeletion ==
    /\ []LaterRequestsAnswer404
    /\ [][Len(answered') = Len(answered) + 1
            => RequestStep(answered'[Len(answered')])]_vars

\* C26: a session was uploaded and deleted, and a chat with its id
\* followed
C26_Witness ==
    \E s \in SessionIds :
        /\ Len(answered) = 3
        /\ answered[1] = Answer("upload", s, "200")
        /\ answered[2] = Answer("delete", s, "200")
        /\ answered[3] = Answer("chat", s, "404")
        /\ s \notin DOMAIN image_sessions

(***************************************************************************)
(* process_technical_drawing of both services: the request_id handed to    *)
(* AsyncLLMEngine.generate.  time is time.time() in milliseconds.          *)
(***************************************************************************)
MillisPerSecond == 1000

\* the calls of generate of one run
MaxGenerations == 3

\* the milliseconds the clock runs, and those between two readings
MaxTime == 1500
TimeStep == 500

Services == {"DeepSeekOCRService", "QwenVisionService"}

\* the number in f"request-{int(time.time())}" of DeepSeekOCRService and
\* in f"request-{int(time.time() * 1000)}" of QwenVisionService, read at t
request_id_of(service, t) ==
    IF service = "DeepSeekOCRService" THEN t \div MillisPerSecond ELSE t

InitGenerations ==
    /\ pc = "generating"
    /\ text = <<>>
    /\ img_width = 1
    /\ img_height = 1
    /\ elements = <<>>
    /\ dimensions = <<>>
    /\ part_numbers = <<>>
    /\ tables = <<>>
    /\ metadata = NoMetadata
    /\ cleaned_text = None
    /\ NoRequests
    /\ grounding = TRUE

\* process_technical_drawing up to its first await: the clock is read, and
\* generate is called with the request_id
Generate ==
    /\ pc = "generating"
    /\ Len(generations) < MaxGenerations
    /\ \E service \in Services :
        generations' = Append(generations,
            [service |-> service,
             request_id |-> request_id_of(service, time),
             in_flight |-> TRUE])
    /\ UNCHANGED <<pc, callVars, sessionVars, time, batchVars>>

\* the async for over generate ends: the generation is over
GenerationOver ==
    /\ pc = "generating"
    /\ \E k \in 1..Len(generations) :
        /\ generations[k].in_flight
        /\ generations' = [generations EXCEPT ![k].in_flight = FALSE]
    /\ UNCHANGED <<pc, callVars, sessionVars, time, batchVars>>

\* the clock of time.time() advances
TimePasses ==
    /\ pc = "generating"
    /\ time + TimeStep <= MaxTime
    /\ time' = time + TimeStep
    /\ UNCHANGED <<pc, callVars, sessionVars, generations, batchVars>>

NextGenerations == Generate \/ GenerationOver \/ TimePasses

SpecGenerations == InitGenerations /\ [][NextGenerations]_vars

\* C28: two invocations of process_technical_drawing of one service whose
\* generations are in flight at the same time have handed distinct
\* request_id values to the engine.
C28_RequestIdsInFlightAreDistinct ==
    \A i, j \in 1..Len(generations) :
        (/\ i < j
         /\ generations[i].in_flight
         /\ generations[j].in_flight
         /\ generations[i].service = generations[j].service)
        => generations[i].request_id # generations[j].request_id

(***************************************************************************)
(* /api/ocr/batch of main.py and process_batch of the services             *)
(***************************************************************************)
\* the files one request may carry
BatchLimit == 50

\* the files of the requests of the model
MaxFiles == 3

Filenames == {<<"a">>, <<"b">>}

\* an uploaded file: its name, and whether its content type starts with
\* "image/"
UploadFiles == [filename : Filenames, image : BOOLEAN]

FileLists == UNION {[1..n -> UploadFiles] : n \in 0..MaxFiles}

\* the TechnicalDrawingResponse of process_technical_drawing for a path
ResultOf(image_path) == [image_path |-> image_path]

\* results with result put at its front
results_prepend(res, result) == <<result>> \o res

\* results.append(result)
results_append(res, result) == Append(res, result)

\* the field "failed" of the response
failed(paths, res) == Len(paths) - Len(res)

\* the paths the endpoint saves: one for each file whose content type is
\* an image type, in the order of the files
RECURSIVE saved_paths(_)
saved_paths(fs) ==
    IF fs = <<>> THEN <<>>
    ELSE (IF Head(fs).image THEN <<Head(fs).filename>> ELSE <<>>)
             \o saved_paths(Tail(fs))

InitBatch ==
    /\ pc = "process_batch"
    /\ text = <<>>
    /\ img_width = 1
    /\ img_height = 1
    /\ elements = <<>>
    /\ dimensions = <<>>
    /\ part_numbers = <<>>
    /\ tables = <<>>
    /\ metadata = NoMetadata
    /\ cleaned_text = None
    /\ grounding = TRUE
    /\ image_sessions = [sid \in {} |-> 0]
    /\ session_files = {}
    /\ issued = {}
    /\ now = 0
    /\ answered = <<>>
    /\ time = 0
    /\ generations = <<>>
    /\ files \in FileLists
    /\ file_paths = <<>>
    /\ results = <<>>
    /\ printed = <<>>
    /\ batch_response = [status |-> "None"]

\* the endpoint up to the call of the service: 400 for more than
\* BatchLimit files; the image files are saved, and an error while saving
\* is answered 500
BatchSave ==
    /\ pc = "process_batch"
    /\ IF Len(files) > BatchLimit
       THEN /\ batch_response' = [status |-> "400"]
            /\ file_paths' = file_paths
            /\ pc' = "done"
       ELSE \E saved \in BOOLEAN :
               IF saved
               THEN /\ file_paths' = saved_paths(files)
                    /\ batch_response' = batch_response
                    /\ pc' = "for image_path in image_paths"
               ELSE /\ file_paths' = file_paths
                    /\ batch_response' = [status |-> "500"]
                    /\ pc' = "done"
    /\ UNCHANGED <<callVars, sessionVars, engineVars, files, results, printed>>

\* one pass of the loop of process_batch: the result of the next path is
\* appended, or its error is printed and the loop continues
BatchStep ==
    /\ pc = "for image_path in image_paths"
    /\ Len(results) + Len(printed) < Len(file_paths)
    /\ LET image_path == file_paths[Len(results) + Len(printed) + 1]
       IN  \E raised \in BOOLEAN :
               IF raised
               THEN /\ printed' = Append(printed, image_path)
                    /\ results' = results
               ELSE /\ results' = results_append(results, ResultOf(image_path))
                    /\ printed' = printed
    /\ UNCHANGED <<pc, callVars, sessionVars, engineVars, files, file_paths,
                   batch_response>>

\* the loop is over: process_batch returns results, and the endpoint
\* answers
BatchReturn ==
    /\ pc = "for image_path in image_paths"
    /\ Len(results) + Len(printed) = Len(file_paths)
    /\ batch_response' = [status |-> "200",
                          results |-> results,
                          total |-> Len(results),
                          successful |-> Len(results),
                          failed |-> failed(file_paths, results)]
    /\ pc' = "done"
    /\ UNCHANGED <<callVars, sessionVars, engineVars, files, file_paths, results,
                   printed>>

NextBatch == BatchSave \/ BatchStep \/ BatchReturn

SpecBatch == InitBatch /\ [][NextBatch]_vars

(***************************************************************************)
(* Claims about batch processing (SpecBatch)                               *)
(***************************************************************************)
\* the entries of paths at the indices of keep up to n, in the order of
\* paths
RECURSIVE Kept(_, _, _)
Kept(paths, keep, n) ==
    IF n = 0 THEN <<>>
    ELSE Kept(paths, keep, n - 1) \o (IF n \in keep THEN <<paths[n]>> ELSE <<>>)

\* the first n paths have been handled in order, those at the indices of
\* raised skipped, the others giving the results
HandledInOrder(n, raised) ==
    /\ printed = Kept(file_paths, raised, n)
    /\ results = [k \in 1..(n - Cardinality(raised)) |->
                     ResultOf(Kept(file_paths, 1..n \ raised, n)[k])]

\* C29: process_batch handles the paths one at a time in input order; a
\* path whose processing raises is skipped and the loop goes on; the
\* results are those of the other paths in input order; the answer of
\* /api/ocr/batch has total = successful = number of results and failed =
\* number of saved image files minus number of results, so successful +
\* failed is the number of image files of the request.
C29_BatchIsolatesFailures ==
    /\ Len(results) + Len(printed) <= Len(file_paths)
    /\ \E raised \in SUBSET (1..(Len(results) + Len(printed))) :
           HandledInOrder(Len(results) + Len(printed), raised)
    /\ (pc = "done" /\ batch_response.status = "200")
        => /\ Len(results) + Len(printed) = Len(file_paths)
           /\ batch_response.results = results
           /\ batch_response.total = Len(results)
           /\ batch_response.successful = Len(results)
           /\ batch_response.failed = Len(file_paths) - Len(results)
           /\ batch_response.successful + batch_response.failed
                  = Cardinality({k \in 1..Len(files) : files[k].image})

\* C29: a request with a file that is no image, an image whose processing
\* raised and a later image that was processed has been answered
C29_Witness ==
    /\ pc = "done"
    /\ files = <<[filename |-> <<"a">>, image |-> FALSE],
                 [filename |-> <<"b">>, image |-> TRUE],
                 [filename |-> <<"a">>, image |-> TRUE]>>
    /\ printed = << <<"b">> >>
    /\ results = <<ResultOf(<<"a">>)>>
    /\ batch_response.status = "200"
    /\ batch_response.failed = 1
=============================================================================
